---- MODULE Spec2Model ----
(***************************************************************************)
(* Model of the workflow / task state machine of the agentic MCP server:   *)
(* the SQLite entity store (projects, tasks, agent_sessions,               *)
(* workflow_checkpoints with their constraints and cascades), the          *)
(* repositories on top of it, the server tool handlers and the file        *)
(* mirror written by FileSync.                                             *)
(***************************************************************************)
EXTENDS Integers, Sequences, FiniteSets, TLC

(***************************************************************************)
(* Bounds of the model                                                     *)
(***************************************************************************)
MaxRows == 4    \* rows ever inserted, over the four tables together
MaxClock == 1   \* seconds the wall clock advances

(***************************************************************************)
(* Enumerations of the schema and of the handlers                          *)
(***************************************************************************)
ProjectStatuses == {"active", "paused", "completed"}
ProjectPhases == {"requirements", "design", "tasks", "execute"}
TaskStatuses == {"pending", "in_progress", "blocked", "completed"}
AgentTypes == {"requirements", "design", "tasks", "implementation"}
phaseOrder == <<"requirements", "design", "tasks", "execute">>
handoffMap == {<<"requirements", "requirements-to-design.md">>,
               <<"design", "design-to-tasks.md">>,
               <<"tasks", "tasks-to-implementation.md">>}

(* values standing for null / undefined *)
NoTask == 0
NoProject == ""

(* the n-th identifier the store generates for a project; project ids are  *)
(* strings because FileSync joins them, like project names, into paths     *)
ProjectIdStr == <<"p1", "p2", "p3", "p4", "p5", "p6", "p7", "p8">>
GhostTask == 99
DefaultSpecDir == ".spec"

(* inputs the callers supply *)
BaseNames == {"alpha"}
TaskPhaseInputs == {"requirements", "execute"}
ContextInputs == {{<<"a", 1>>}, {<<"b", 2>>}}
DeliverableInputs == {{<<"doc", "x">>}}

VARIABLES
  projects,      \* rows of table projects, keyed by id
  tasks,         \* rows of table tasks, keyed by id
  sessions,      \* rows of table agent_sessions, keyed by id
  checkpoints,   \* rows of table workflow_checkpoints, keyed by id
  created,       \* how many rows each table has ever received (ids are never reused)
  now,           \* CURRENT_TIMESTAMP, one-second resolution
  tieBreak,      \* order in which the store returns rows that tie on ORDER BY
  enabled,       \* FileSync.enabled
  projectDirs,   \* directories baseDir/<key>/ with implementation/ and handoffs/
  readmeFiles,   \* baseDir/<key>/README.md
  handoffFiles,  \* baseDir/<key>/handoffs/<file>
  specDir,       \* FileSync.specDir
  specFiles,     \* the documents under specDir and the working directory, by path
  inflight,      \* per caller, the repository call it has begun and what that call has read
  last           \* the operation that ran last, its arguments and its outcome

store == <<projects, tasks, sessions, checkpoints>>
mirror == <<projectDirs, readmeFiles, handoffFiles, specFiles>>
vars == <<projects, tasks, sessions, checkpoints, created, now, tieBreak,
          enabled, specDir, projectDirs, readmeFiles, handoffFiles, specFiles,
          inflight, last>>

(***************************************************************************)
(* Helpers                                                                 *)
(***************************************************************************)
Remove(f, S) == [x \in DOMAIN f \ S |-> f[x]]

Range(s) == {s[i] : i \in DOMAIN s}

(* { ...old, ...new } on maps held as sets of <<key, value>> *)
(* the supplied object replaces the stored one *)
SpreadReplace(old, new) == new

SpreadMerge(old, new) ==
  new \cup {kv \in old : \A kv2 \in new : kv2[1] # kv[1]}

Ok == [code |-> "OK", msg |-> ""]
Err(code, msg) == [code |-> code, msg |-> msg]

Outcome(op, pid, tid, ph, outcome, value) ==
  [op |-> op, projectId |-> pid, id |-> tid, phase |-> ph,
   outcome |-> outcome, value |-> value]

(* the store still has room for one more row *)
CanInsert ==
  created.project + created.task + created.session + created.checkpoint < MaxRows

TieBefore(a, b) == IF tieBreak = "rowidAsc" THEN a < b ELSE a > b

(***************************************************************************)
(* types/index.ts: validation helpers                                      *)
(***************************************************************************)
isValidProjectStatus(status) == status \in ProjectStatuses
(* the phase of an update is not validated *)
isValidProjectPhaseAny(phase) == TRUE

isValidProjectPhase(phase) == phase \in ProjectPhases
isValidTaskStatus(status) == status \in TaskStatuses
isValidTaskPhase(phase) == phase \in ProjectPhases
isValidAgentType(type) == type \in AgentTypes

(***************************************************************************)
(* findById of the four repositories: the set of rows with that primary    *)
(* key, empty (the code's null) or a singleton                             *)
(***************************************************************************)
ProjectFindById(id) == {projects[i] : i \in DOMAIN projects \cap {id}}
TaskFindById(id) == {tasks[i] : i \in DOMAIN tasks \cap {id}}
SessionFindById(id) == {sessions[i] : i \in DOMAIN sessions \cap {id}}
CheckpointFindById(id) == {checkpoints[i] : i \in DOMAIN checkpoints \cap {id}}

(***************************************************************************)
(* TaskRepository.findByProject: WHERE project_id = ? [AND status = ?]     *)
(* [AND phase = ?] ORDER BY priority DESC, created_at ASC.  A filter field *)
(* of "" is an absent field.                                               *)
(***************************************************************************)
TaskBefore(a, b) ==
  \/ tasks[a].priority > tasks[b].priority
  \/ /\ tasks[a].priority = tasks[b].priority
     /\ tasks[a].createdAt < tasks[b].createdAt
  \/ /\ tasks[a].priority = tasks[b].priority
     /\ tasks[a].createdAt = tasks[b].createdAt
     /\ TieBefore(a, b)

RECURSIVE OrderTasks(_)
OrderTasks(S) ==
  IF S = {} THEN << >>
  ELSE LET first == CHOOSE a \in S : \A b \in S \ {a} : TaskBefore(a, b)
       IN <<first>> \o OrderTasks(S \ {first})

FindByProject(projectId, filter) ==
  OrderTasks({t \in DOMAIN tasks :
                /\ tasks[t].projectId = projectId
                /\ filter.status # "" => tasks[t].status = filter.status
                /\ filter.phase # "" => tasks[t].phase = filter.phase})

(***************************************************************************)
(* init.sql: the rows an ON DELETE CASCADE removes                         *)
(***************************************************************************)
(* the cascade stops at the children *)
CascadeTasksOneLevel(S) == S \cup {t \in DOMAIN tasks : tasks[t].parentId \in S}

RECURSIVE CascadeTasks(_)
CascadeTasks(S) ==
  LET more == S \cup {t \in DOMAIN tasks : tasks[t].parentId \in S}
  IN IF more = S THEN S ELSE CascadeTasks(more)

(* agent_sessions.task_id ... ON DELETE CASCADE *)
SessionsAfterTaskDeleteCascade(ss, gone) ==
  [s \in {x \in DOMAIN ss : ss[x].taskId \notin gone} |-> ss[s]]

(* agent_sessions.task_id ... ON DELETE SET NULL *)
SessionsAfterTaskDelete(ss, gone) ==
  [s \in DOMAIN ss |->
     IF ss[s].taskId \in gone THEN [ss[s] EXCEPT !.taskId = NoTask] ELSE ss[s]]

InitRows ==
  /\ projects = << >>
  /\ tasks = << >>
  /\ sessions = << >>
  /\ checkpoints = << >>
  /\ created = [project |-> 0, task |-> 0, session |-> 0, checkpoint |-> 0]
  /\ now = 0
  /\ tieBreak \in {"rowidAsc", "rowidDesc"}
  /\ enabled \in BOOLEAN
  /\ projectDirs = {}
  /\ readmeFiles = << >>
  /\ handoffFiles = << >>
  /\ specFiles = << >>
  /\ inflight = << >>
  /\ last = Outcome("init", NoProject, NoTask, "", Ok, {})

(* the server constructs FileSync without arguments: specDir is <cwd>/.spec *)
Init == InitRows /\ specDir = DefaultSpecDir

(* the wall clock advances between two operations *)
Tick ==
  /\ now < MaxClock
  /\ now' = now + 1
  /\ last' = Outcome("tick", NoProject, NoTask, "", Ok, {})
  /\ UNCHANGED <<store, created, tieBreak, enabled, specDir, inflight, mirror>>

(***************************************************************************)
(* FileSync.createProjectFiles: three mkdir -p, then README.md is written  *)
(* afresh.  fault names the file-system call that fails, if any.  The      *)
(* directory is keyed by the project NAME.                                 *)
(***************************************************************************)

NewReadme(projectId) == [id |-> projectId, done |-> {}, current |-> "requirements"]

createProjectFiles(projectId, projectName, fault) ==
  IF ~enabled
    THEN [threw |-> FALSE, dirs |-> projectDirs, readmes |-> readmeFiles]
  ELSE IF fault = "mkdir"
    THEN [threw |-> TRUE, dirs |-> projectDirs, readmes |-> readmeFiles]
  ELSE IF fault = "writeFile"
    THEN [threw |-> TRUE, dirs |-> projectDirs \cup {projectName},
          readmes |-> readmeFiles]
  ELSE [threw |-> FALSE, dirs |-> projectDirs \cup {projectName},
        readmes |-> (projectName :> NewReadme(projectId)) @@ readmeFiles]

(***************************************************************************)
(* ProjectRepository.create: INSERT INTO projects; name is UNIQUE          *)
(***************************************************************************)
(* projects.name declared without UNIQUE *)
NameNeverTaken(name) == FALSE

NameTaken(name) == \E p \in DOMAIN projects : projects[p].name = name

NewProject(name) ==
  [name |-> name, status |-> "active", currentPhase |-> "requirements"]

(* ProjectRepository.create with a status and a phase ("" = omitted); the  *)
(* CHECK constraints of table projects refuse values outside their lists   *)
ProjectCreate(name, status, currentPhase) ==
  /\ CanInsert
  /\ LET id == ProjectIdStr[created.project + 1]
     IN IF \/ status # "" /\ status \notin ProjectStatuses
           \/ currentPhase # "" /\ currentPhase \notin ProjectPhases
          THEN /\ last' = Outcome("project.create", NoProject, NoTask, currentPhase,
                                  Err("SqliteError", "CHECK constraint failed"), name)
               /\ UNCHANGED <<projects, created>>
        ELSE IF NameTaken(name)
          THEN /\ last' = Outcome("project.create", NoProject, NoTask, currentPhase,
                                  Err("SqliteError", "UNIQUE constraint failed"), name)
               /\ UNCHANGED <<projects, created>>
        ELSE /\ projects' = (id :> [NewProject(name) EXCEPT
                                      !.status = IF status # "" THEN status ELSE @,
                                      !.currentPhase = IF currentPhase # ""
                                                         THEN currentPhase ELSE @])
                               @@ projects
             /\ created' = [created EXCEPT !.project = @ + 1]
             /\ last' = Outcome("project.create", id, NoTask, currentPhase, Ok, name)
  /\ UNCHANGED <<tasks, sessions, checkpoints, now, tieBreak, enabled, specDir, inflight, mirror>>

(***************************************************************************)
(* AgenticMCPServer.handleProjectCreate                                    *)
(***************************************************************************)
handleProjectCreate(name, fault) ==
  /\ CanInsert
  /\ LET id == ProjectIdStr[created.project + 1]
         files == createProjectFiles(id, name, fault)
     IN IF NameTaken(name)
          THEN /\ last' = Outcome("project_create", NoProject, NoTask, "",
                                  Err("InvalidParams", "already exists"), name)
               /\ UNCHANGED <<store, created, mirror>>
          ELSE /\ projects' = (id :> NewProject(name)) @@ projects
               /\ created' = [created EXCEPT !.project = @ + 1]
               /\ projectDirs' = files.dirs
               /\ readmeFiles' = files.readmes
               /\ last' = Outcome("project_create", id, NoTask, "",
                                  IF files.threw
                                    THEN Err("InternalError", "Failed to create project")
                                    ELSE Ok, name)
               /\ UNCHANGED <<tasks, sessions, checkpoints, handoffFiles, specFiles>>
  /\ UNCHANGED <<now, tieBreak, enabled, specDir, inflight>>

(***************************************************************************)
(* ProjectRepository.update with a status and/or a phase ("" = undefined)  *)
(***************************************************************************)
ProjectUpdate(id, status, phase) ==
  /\ IF status # "" /\ ~isValidProjectStatus(status)
       THEN /\ last' = Outcome("project.update", id, NoTask, "",
                               Err("Error", "Invalid project status"), {})
            /\ UNCHANGED projects
     ELSE IF phase # "" /\ ~isValidProjectPhase(phase)
       THEN /\ last' = Outcome("project.update", id, NoTask, "",
                               Err("Error", "Invalid project phase"), {})
            /\ UNCHANGED projects
     ELSE IF id \notin DOMAIN projects
       THEN /\ last' = Outcome("project.update", NoProject, NoTask, "", Ok, {})
            /\ UNCHANGED projects
     ELSE /\ projects' = [projects EXCEPT
                 ![id].status = IF status # "" THEN status ELSE @,
                 ![id].currentPhase = IF phase # "" THEN phase ELSE @]
          /\ last' = Outcome("project.update", NoProject, NoTask, "", Ok, {})
  /\ UNCHANGED <<tasks, sessions, checkpoints, created, now, tieBreak, enabled, specDir, inflight, mirror>>

(***************************************************************************)
(* ProjectRepository.delete: DELETE FROM projects WHERE id = ?, with the   *)
(* cascades of init.sql                                                    *)
(***************************************************************************)
ProjectDeleteTasks(id) ==
  CascadeTasks({t \in DOMAIN tasks : tasks[t].projectId = id})

ProjectDeleteSessions(id) ==
  {s \in DOMAIN sessions : sessions[s].projectId = id}

(* workflow_checkpoints.project_id declared without ON DELETE CASCADE *)
ProjectDeleteNoCheckpoints(id) == {}

ProjectDeleteCheckpoints(id) ==
  {c \in DOMAIN checkpoints : checkpoints[c].projectId = id}

ProjectDelete(id) ==
  /\ IF id \notin DOMAIN projects
       THEN /\ last' = Outcome("project.delete", id, NoTask, "", Ok, FALSE)
            /\ UNCHANGED store
       ELSE /\ projects' = Remove(projects, {id})
            /\ tasks' = Remove(tasks, ProjectDeleteTasks(id))
            /\ sessions' = SessionsAfterTaskDelete(
                             Remove(sessions, ProjectDeleteSessions(id)),
                             ProjectDeleteTasks(id))
            /\ checkpoints' = Remove(checkpoints, ProjectDeleteCheckpoints(id))
            /\ last' = Outcome("project.delete", id, NoTask, "", Ok, TRUE)
  /\ UNCHANGED <<created, now, tieBreak, enabled, specDir, inflight, mirror>>

(***************************************************************************)
(* TaskRepository.create.  status "" and priority 0 are omitted arguments  *)
(* (item.status || 'pending', item.priority || 1); dependencies is the set *)
(* of ids of the JSON array, which the store only uses in "id IN (...)".   *)
(***************************************************************************)
NewTask(projectId, parentId, phase, status, priority, dependencies) ==
  [projectId |-> projectId, parentId |-> parentId, phase |-> phase,
   status |-> IF status = "" THEN "pending" ELSE status,
   assigneeType |-> "",
   priority |-> IF priority = 0 THEN 1 ELSE priority,
   dependencies |-> dependencies, createdAt |-> now]

TaskCreate(projectId, parentId, phase, status, priority, dependencies) ==
  /\ CanInsert
  /\ LET id == created.task + 1
     IN IF ~isValidTaskPhase(phase)
          THEN /\ last' = Outcome("task.create", NoProject, NoTask, "",
                                  Err("Error", "Invalid task phase"), {})
               /\ UNCHANGED <<tasks, created>>
        ELSE IF status # "" /\ ~isValidTaskStatus(status)
          THEN /\ last' = Outcome("task.create", NoProject, NoTask, "",
                                  Err("SqliteError", "CHECK constraint failed"), {})
               /\ UNCHANGED <<tasks, created>>
        ELSE IF \/ projectId \notin DOMAIN projects
                \/ parentId # NoTask /\ parentId \notin DOMAIN tasks
          THEN /\ last' = Outcome("task.create", NoProject, NoTask, "",
                                  Err("SqliteError", "FOREIGN KEY constraint failed"), {})
               /\ UNCHANGED <<tasks, created>>
        ELSE /\ tasks' = (id :> NewTask(projectId, parentId, phase, status,
                                        priority, dependencies)) @@ tasks
             /\ created' = [created EXCEPT !.task = @ + 1]
             /\ last' = Outcome("task.create", NoProject, NoTask, "", Ok, {})
  /\ UNCHANGED <<projects, sessions, checkpoints, now, tieBreak, enabled, specDir, inflight, mirror>>

(***************************************************************************)
(* TaskRepository.update with a status                                     *)
(***************************************************************************)
TaskUpdate(id, status) ==
  /\ IF ~isValidTaskStatus(status)
       THEN /\ last' = Outcome("task.update", NoProject, id, "",
                               Err("Error", "Invalid task status"), {})
            /\ UNCHANGED tasks
     ELSE IF id \notin DOMAIN tasks
       THEN /\ last' = Outcome("task.update", NoProject, id, "", Ok, {})
            /\ UNCHANGED tasks
     ELSE /\ tasks' = [tasks EXCEPT ![id].status = status]
          /\ last' = Outcome("task.update", NoProject, id, "", Ok, {})
  /\ UNCHANGED <<projects, sessions, checkpoints, created, now, tieBreak, enabled, specDir, inflight, mirror>>

(***************************************************************************)
(* TaskRepository.delete: DELETE the children, then the task; the foreign  *)
(* keys of init.sql cascade to deeper descendants and null the sessions'   *)
(* task references                                                         *)
(***************************************************************************)
TaskDelete(id) ==
  /\ tasks' = Remove(tasks, CascadeTasks({id} \cap DOMAIN tasks))
  /\ sessions' = SessionsAfterTaskDelete(sessions, CascadeTasks({id} \cap DOMAIN tasks))
  /\ last' = Outcome("task.delete", NoProject, id, "", Ok,
                     [result |-> id \in DOMAIN tasks,
                      removed |-> CascadeTasks({id} \cap DOMAIN tasks),
                      cleared |-> [s \in {x \in DOMAIN sessions : sessions[x].taskId \in
                                            CascadeTasks({id} \cap DOMAIN tasks)}
                                     |-> sessions[s].taskId]])
  /\ UNCHANGED <<projects, checkpoints, created, now, tieBreak, enabled, specDir, inflight, mirror>>

(***************************************************************************)
(* TaskRepository.getTaskTree.  The forest of TaskNode objects is given by *)
(* the array of roots and, for every node of taskMap, its children array,  *)
(* both in the order of the second pass over allTasks.                     *)
(***************************************************************************)
AllTasksFilter == [status |-> "", phase |-> ""]

(* a task whose parent is not in taskMap is pushed nowhere *)
getTaskTreeOrphansLost(projectId) ==
  LET allTasks == FindByProject(projectId, AllTasksFilter)
      taskMap == Range(allTasks)
      IsRoot(t) == tasks[t].parentId = NoTask
      IsChild(t) == tasks[t].parentId # NoTask /\ tasks[t].parentId \in taskMap
  IN [rootTasks |-> SelectSeq(allTasks, IsRoot),
      children |-> [n \in taskMap |->
                      LET ChildOfN(t) == IsChild(t) /\ tasks[t].parentId = n
                      IN SelectSeq(allTasks, ChildOfN)]]

getTaskTree(projectId) ==
  LET allTasks == FindByProject(projectId, AllTasksFilter)
      taskMap == Range(allTasks)
      HasParent(t) == tasks[t].parentId # NoTask /\ tasks[t].parentId \in taskMap
      IsRoot(t) == ~HasParent(t)
  IN [rootTasks |-> SelectSeq(allTasks, IsRoot),
      children |-> [n \in taskMap |->
                      LET ChildOfN(t) == HasParent(t) /\ tasks[t].parentId = n
                      IN SelectSeq(allTasks, ChildOfN)]]

GetTaskTree(projectId) ==
  /\ last' = Outcome("getTaskTree", projectId, NoTask, "", Ok, getTaskTree(projectId))
  /\ UNCHANGED <<store, created, now, tieBreak, enabled, specDir, inflight, mirror>>

(***************************************************************************)
(* TaskRepository.checkDependencies                                        *)
(***************************************************************************)
(* counts a dependency id that matches no row as not completed *)
IncompleteCountMissing(dependencies) ==
  Cardinality({t \in dependencies :
                 t \notin DOMAIN tasks \/ tasks[t].status # "completed"})

IncompleteCount(dependencies) ==
  Cardinality({t \in DOMAIN tasks :
                 t \in dependencies /\ tasks[t].status # "completed"})

(* satisfied as soon as one dependency is completed *)
checkDependenciesAny(taskId) ==
  IF taskId \notin DOMAIN tasks \/ tasks[taskId].dependencies = {}
    THEN TRUE
    ELSE \E t \in DOMAIN tasks :
           t \in tasks[taskId].dependencies /\ tasks[t].status = "completed"

checkDependencies(taskId) ==
  IF taskId \notin DOMAIN tasks \/ tasks[taskId].dependencies = {}
    THEN TRUE
    ELSE IncompleteCount(tasks[taskId].dependencies) = 0

CheckDependencies(taskId) ==
  /\ last' = Outcome("checkDependencies", NoProject, taskId, "", Ok,
                     checkDependencies(taskId))
  /\ UNCHANGED <<store, created, now, tieBreak, enabled, specDir, inflight, mirror>>

(***************************************************************************)
(* AgentSessionRepository.create                                           *)
(***************************************************************************)
NewSession(projectId, taskId, agentType, contextData) ==
  [projectId |-> projectId, taskId |-> taskId, agentType |-> agentType,
   contextData |-> contextData, lastActive |-> now]

(* agent_sessions.project_id declared without REFERENCES projects(id) *)
SessionForeignKeyFailsTaskOnly(projectId, taskId) ==
  taskId # NoTask /\ taskId \notin DOMAIN tasks

SessionForeignKeyFails(projectId, taskId) ==
  \/ projectId \notin DOMAIN projects
  \/ taskId # NoTask /\ taskId \notin DOMAIN tasks

SessionCreateFails(projectId, taskId, agentType) ==
  \/ ~isValidAgentType(agentType)
  \/ SessionForeignKeyFails(projectId, taskId)

SessionCreate(projectId, taskId, agentType, contextData) ==
  /\ CanInsert
  /\ IF ~isValidAgentType(agentType)
       THEN /\ last' = Outcome("session.create", projectId, NoTask, agentType,
                               Err("Error", "Invalid agent type"), {})
            /\ UNCHANGED <<sessions, created>>
     ELSE IF SessionForeignKeyFails(projectId, taskId)
       THEN /\ last' = Outcome("session.create", projectId, NoTask, agentType,
                               Err("SqliteError", "FOREIGN KEY constraint failed"), {})
            /\ UNCHANGED <<sessions, created>>
     ELSE /\ sessions' = ((created.session + 1) :>
                            NewSession(projectId, taskId, agentType, contextData))
                           @@ sessions
          /\ created' = [created EXCEPT !.session = @ + 1]
          /\ last' = Outcome("session.create", projectId, created.session + 1,
                             agentType, Ok, {})
  /\ UNCHANGED <<projects, tasks, checkpoints, now, tieBreak, enabled, specDir, inflight, mirror>>

(***************************************************************************)
(* AgentSessionRepository.findByProjectAndType: ORDER BY last_active DESC  *)
(* LIMIT 1; the set holding the row's id, or the empty set for null        *)
(***************************************************************************)
SessionBefore(a, b) ==
  \/ sessions[a].lastActive > sessions[b].lastActive
  \/ sessions[a].lastActive = sessions[b].lastActive /\ TieBefore(a, b)

findByProjectAndType(projectId, agentType) ==
  LET match == {s \in DOMAIN sessions :
                  /\ sessions[s].projectId = projectId
                  /\ sessions[s].agentType = agentType}
  IN {s \in match : \A o \in match \ {s} : SessionBefore(s, o)}

(***************************************************************************)
(* AgentSessionRepository.findByProject: ORDER BY last_active DESC, and    *)
(* getAllContexts, which walks that list and lets each session overwrite   *)
(* the entry of its agent type                                             *)
(***************************************************************************)
RECURSIVE OrderSessions(_)
OrderSessions(S) ==
  IF S = {} THEN << >>
  ELSE LET first == CHOOSE a \in S : \A b \in S \ {a} : SessionBefore(a, b)
       IN <<first>> \o OrderSessions(S \ {first})

findSessionsByProject(projectId) ==
  OrderSessions({s \in DOMAIN sessions : sessions[s].projectId = projectId})

contextsOf(list) ==
  [ty \in {sessions[list[i]].agentType : i \in DOMAIN list} |->
     sessions[list[CHOOSE i \in DOMAIN list :
                     /\ sessions[list[i]].agentType = ty
                     /\ \A j \in DOMAIN list :
                          sessions[list[j]].agentType = ty => j <= i]].contextData]

getAllContexts(projectId) == contextsOf(findSessionsByProject(projectId))

GetAllContexts(projectId) ==
  /\ last' = Outcome("getAllContexts", projectId, NoTask, "", Ok,
                     [contexts |-> getAllContexts(projectId)])
  /\ UNCHANGED <<store, created, now, tieBreak, enabled, specDir, inflight, mirror>>

(***************************************************************************)
(* AgenticMCPServer.handleContextLoad; its catch block turns the           *)
(* not-found error into an internal error                                  *)
(***************************************************************************)
handleContextLoad(projectId) ==
  /\ IF projectId \notin DOMAIN projects
       THEN last' = Outcome("context_load", projectId, NoTask, "",
                            Err("InternalError", "Failed to load contexts"), {})
       ELSE last' = Outcome("context_load", projectId, NoTask, "", Ok,
                            [contexts |-> contextsOf(findSessionsByProject(projectId)),
                             sessions |-> findSessionsByProject(projectId)])
  /\ UNCHANGED <<store, created, now, tieBreak, enabled, specDir, inflight, mirror>>

(***************************************************************************)
(* AgenticMCPServer.handleContextSave                                      *)
(***************************************************************************)
ContextSaveSessions(projectId, agentType, context) ==
  ((created.session + 1) :> NewSession(projectId, NoTask, agentType, context))
    @@ sessions

handleContextSave(projectId, agentType, context) ==
  /\ CanInsert
  /\ IF SessionCreateFails(projectId, NoTask, agentType)
       THEN /\ last' = Outcome("context_save", projectId, NoTask, agentType,
                               Err("InternalError", "Tool execution failed"), {})
            /\ UNCHANGED <<sessions, created>>
       ELSE /\ sessions' = ContextSaveSessions(projectId, agentType, context)
            /\ created' = [created EXCEPT !.session = @ + 1]
            /\ last' = Outcome("context_save", projectId, created.session + 1,
                               agentType, Ok, context)
  /\ UNCHANGED <<projects, tasks, checkpoints, now, tieBreak, enabled, specDir, inflight, mirror>>

(***************************************************************************)
(* AgentSessionRepository.updateContext                                    *)
(***************************************************************************)
updateContext(id, context) ==
  /\ IF id \notin DOMAIN sessions
       THEN /\ last' = Outcome("updateContext", NoProject, id, "",
                               Err("Error", "Agent session not found"), {})
            /\ UNCHANGED sessions
       ELSE /\ sessions' = [sessions EXCEPT
                 ![id].contextData = SpreadMerge(@, context),
                 ![id].lastActive = now]
            /\ last' = Outcome("updateContext", sessions[id].projectId, id,
                               sessions[id].agentType, Ok, context)
  /\ UNCHANGED <<projects, tasks, checkpoints, created, now, tieBreak, enabled, specDir, inflight, mirror>>

(***************************************************************************)
(* AgentSessionRepository.assignAgent: the session found for the task's    *)
(* project and the agent type is pointed at the task, or a session is      *)
(* created for it                                                          *)
(***************************************************************************)
(* always creates a session, like handleContextSave *)
AssignExistingNone(projectId, agentType) == {}

AssignExisting(projectId, agentType) == findByProjectAndType(projectId, agentType)

AssignAgent(taskId, agentType) ==
  /\ IF taskId \notin DOMAIN tasks
       THEN /\ last' = Outcome("assignAgent", NoProject, NoTask, agentType,
                               Err("Error", "Task not found"), taskId)
            /\ UNCHANGED <<sessions, created>>
     ELSE IF AssignExisting(tasks[taskId].projectId, agentType) # {}
       THEN LET existing == CHOOSE s \in AssignExisting(tasks[taskId].projectId, agentType) : TRUE
            IN /\ sessions' = [sessions EXCEPT ![existing].taskId = taskId,
                                               ![existing].lastActive = now]
               /\ last' = Outcome("assignAgent", tasks[taskId].projectId, existing,
                                  agentType, Ok, taskId)
               /\ UNCHANGED created
     ELSE IF SessionCreateFails(tasks[taskId].projectId, taskId, agentType)
       THEN /\ last' = Outcome("assignAgent", NoProject, NoTask, agentType,
                               Err("Error", "Invalid agent type"), taskId)
            /\ UNCHANGED <<sessions, created>>
     ELSE /\ CanInsert
          /\ sessions' = ((created.session + 1) :>
                            NewSession(tasks[taskId].projectId, taskId, agentType, {}))
                           @@ sessions
          /\ created' = [created EXCEPT !.session = @ + 1]
          /\ last' = Outcome("assignAgent", tasks[taskId].projectId, created.session + 1,
                             agentType, Ok, taskId)
  /\ UNCHANGED <<projects, tasks, checkpoints, now, tieBreak, enabled, specDir, inflight, mirror>>

(***************************************************************************)
(* WorkflowRepository.createCheckpoint: the row it inserts.  JSON drops an *)
(* undefined currentTask; NoTask stands for the absent key.                *)
(***************************************************************************)
(* forgets the phase filter of the two task queries *)
createCheckpointAnyPhase(projectId, phase) ==
  LET completedTasks == FindByProject(projectId, [phase |-> "", status |-> "completed"])
      inProgressTasks == FindByProject(projectId, [phase |-> "", status |-> "in_progress"])
  IN [projectId |-> projectId,
      phase |-> phase,
      checkpointData |->
        [completedTasks |-> completedTasks,
         currentTask |-> IF Len(inProgressTasks) > 0 THEN inProgressTasks[1] ELSE NoTask,
         phaseDeliverables |-> {}],
      createdAt |-> now]

createCheckpoint(projectId, phase) ==
  LET completedTasks == FindByProject(projectId, [phase |-> phase, status |-> "completed"])
      inProgressTasks == FindByProject(projectId, [phase |-> phase, status |-> "in_progress"])
  IN [projectId |-> projectId,
      phase |-> phase,
      checkpointData |->
        [completedTasks |-> completedTasks,
         currentTask |-> IF Len(inProgressTasks) > 0 THEN inProgressTasks[1] ELSE NoTask,
         phaseDeliverables |-> {}],
      createdAt |-> now]

(* WorkflowRepository.createCheckpoint called on its own: the INSERT of    *)
(* create is refused when project_id references no project                 *)
CreateCheckpoint(projectId, phase) ==
  /\ CanInsert
  /\ IF projectId \notin DOMAIN projects
       THEN /\ last' = Outcome("createCheckpoint", projectId, NoTask, phase,
                               Err("SqliteError", "FOREIGN KEY constraint failed"), {})
            /\ UNCHANGED <<checkpoints, created>>
       ELSE /\ checkpoints' = ((created.checkpoint + 1) :> createCheckpoint(projectId, phase))
                                @@ checkpoints
            /\ created' = [created EXCEPT !.checkpoint = @ + 1]
            /\ last' = Outcome("createCheckpoint", projectId, created.checkpoint + 1,
                               phase, Ok, {})
  /\ UNCHANGED <<projects, tasks, sessions, now, tieBreak, enabled, specDir, inflight, mirror>>

(***************************************************************************)
(* WorkflowRepository.update: checkpoints are immutable                    *)
(***************************************************************************)
(* applies the update instead of refusing it *)
CheckpointUpdateWrites(id, updates) ==
  /\ checkpoints' = IF id \in DOMAIN checkpoints
                      THEN [checkpoints EXCEPT ![id].phase = updates.phase]
                      ELSE checkpoints
  /\ last' = Outcome("checkpoint.update", NoProject, id, "", Ok, {})
  /\ UNCHANGED <<projects, tasks, sessions, created, now, tieBreak, enabled, specDir, inflight, mirror>>

CheckpointUpdate(id, updates) ==
  /\ UNCHANGED checkpoints
  /\ last' = Outcome("checkpoint.update", NoProject, id, "",
                     Err("Error", "Workflow checkpoints cannot be updated"), {})
  /\ UNCHANGED <<projects, tasks, sessions, created, now, tieBreak, enabled, specDir, inflight, mirror>>

(***************************************************************************)
(* WorkflowRepository.getLatestCheckpoint: ORDER BY created_at DESC        *)
(* LIMIT 1; the set holding the row's id, or the empty set for null        *)
(***************************************************************************)
CheckpointBefore(a, b) ==
  \/ checkpoints[a].createdAt > checkpoints[b].createdAt
  \/ checkpoints[a].createdAt = checkpoints[b].createdAt /\ TieBefore(a, b)

getLatestCheckpoint(projectId) ==
  LET match == {c \in DOMAIN checkpoints : checkpoints[c].projectId = projectId}
  IN {c \in match : \A o \in match \ {c} : CheckpointBefore(c, o)}

(***************************************************************************)
(* WorkflowRepository.resumeWorkflow                                       *)
(***************************************************************************)
(* partitions every task of the project, whatever its phase *)
resumeWorkflowAllPhases(projectId) ==
  LET project == projects[projectId]
      allTasks == FindByProject(projectId, [phase |-> "", status |-> ""])
      rows(ids) == [i \in DOMAIN ids |-> [id |-> ids[i], row |-> tasks[ids[i]]]]
  IN [project |-> [id |-> projectId, row |-> project],
      currentPhase |-> project.currentPhase,
      checkpoint |-> {[id |-> c, row |-> checkpoints[c]] : c \in getLatestCheckpoint(projectId)},
      pendingTasks |-> rows(SelectSeq(allTasks, LAMBDA t : tasks[t].status # "completed")),
      completedTasks |-> rows(SelectSeq(allTasks, LAMBDA t : tasks[t].status = "completed"))]

TaskRows(ids) == [i \in DOMAIN ids |-> [id |-> ids[i], row |-> tasks[ids[i]]]]

resumeWorkflow(projectId) ==
  LET project == projects[projectId]
      allTasks == FindByProject(projectId, [phase |-> project.currentPhase, status |-> ""])
  IN [project |-> [id |-> projectId, row |-> project],
      currentPhase |-> project.currentPhase,
      checkpoint |-> {[id |-> c, row |-> checkpoints[c]] : c \in getLatestCheckpoint(projectId)},
      pendingTasks |-> TaskRows(SelectSeq(allTasks, LAMBDA t : tasks[t].status # "completed")),
      completedTasks |-> TaskRows(SelectSeq(allTasks, LAMBDA t : tasks[t].status = "completed"))]

(* value.previous: the result of the call before, when that call was a    *)
(* resume of the same project (nothing ran in between), else empty         *)
PreviousResume(projectId) ==
  IF last.op = "resumeWorkflow" /\ last.projectId = projectId /\ last.outcome = Ok
    THEN {last.value.result}
    ELSE {}

(* resuming also starts the first pending task of the current phase *)
ResumeWorkflowStartsTask(projectId) ==
  /\ projectId \in DOMAIN projects
  /\ LET result == resumeWorkflow(projectId)
     IN /\ last' = Outcome("resumeWorkflow", projectId, NoTask, "", Ok,
                           [result |-> result, previous |-> PreviousResume(projectId)])
        /\ tasks' = IF Len(result.pendingTasks) > 0
                      THEN [tasks EXCEPT ![result.pendingTasks[1].id].status = "in_progress"]
                      ELSE tasks
  /\ UNCHANGED <<projects, sessions, checkpoints, created, now, tieBreak, enabled, specDir, inflight, mirror>>

ResumeWorkflow(projectId) ==
  /\ IF projectId \notin DOMAIN projects
       THEN last' = Outcome("resumeWorkflow", projectId, NoTask, "",
                            Err("Error", "Project not found"), {})
       ELSE last' = Outcome("resumeWorkflow", projectId, NoTask, "", Ok,
                            [result |-> resumeWorkflow(projectId),
                             previous |-> PreviousResume(projectId)])
  /\ UNCHANGED <<store, created, now, tieBreak, enabled, specDir, inflight, mirror>>

(***************************************************************************)
(* AgenticMCPServer.handleWorkflowResume: the project is looked up and a   *)
(* summary of it is returned; the workflow repository is not consulted     *)
(***************************************************************************)
ResumeSummary(projectId) ==
  [success |-> TRUE,
   project |-> [id |-> projectId,
                name |-> projects[projectId].name,
                currentPhase |-> projects[projectId].currentPhase,
                status |-> projects[projectId].status]]

(* resuming also rewinds the project to the phase of its latest checkpoint *)
handleWorkflowResumeRewinds(projectId) ==
  /\ projectId \in DOMAIN projects
  /\ last' = Outcome("workflow_resume", projectId, NoTask, "", Ok, ResumeSummary(projectId))
  /\ projects' = [projects EXCEPT ![projectId].currentPhase =
                    IF getLatestCheckpoint(projectId) = {}
                      THEN @
                      ELSE checkpoints[CHOOSE c \in getLatestCheckpoint(projectId) : TRUE].phase]
  /\ UNCHANGED <<tasks, sessions, checkpoints, created, now, tieBreak, enabled, specDir, inflight, mirror>>

handleWorkflowResume(projectId) ==
  /\ IF projectId \notin DOMAIN projects
       THEN last' = Outcome("workflow_resume", projectId, NoTask, "",
                            Err("InvalidParams", "Project not found"), {})
       ELSE last' = Outcome("workflow_resume", projectId, NoTask, "", Ok,
                            ResumeSummary(projectId))
  /\ UNCHANGED <<store, created, now, tieBreak, enabled, specDir, inflight, mirror>>

(***************************************************************************)
(* FileSync.completePhase and updateProjectReadme.  The handoff document   *)
(* goes to baseDir/<projectId>/handoffs/, which exists only if             *)
(* createProjectFiles made a directory of that very name.                  *)
(***************************************************************************)
handoffFileOf(phase) == {hf[2] : hf \in {x \in handoffMap : x[1] = phase}}

readmeNextPhase(phase) ==
  CASE phase = "requirements" -> "design"
    [] phase = "design" -> "tasks"
    [] phase = "tasks" -> "execute"
    [] phase = "execute" -> "completed"
    [] OTHER -> ""

updateProjectReadme(projectId, completedPhase, fault) ==
  IF projectId \notin DOMAIN readmeFiles \/ fault = "readme"
    THEN readmeFiles
    ELSE [readmeFiles EXCEPT
            ![projectId].done =
               IF completedPhase \in ProjectPhases THEN @ \cup {completedPhase} ELSE @,
            ![projectId].current =
               IF readmeNextPhase(completedPhase) # ""
                 THEN readmeNextPhase(completedPhase) ELSE @]

completePhaseIf(isEnabled, projectId, phase, deliverables, fault) ==
  IF ~isEnabled
    THEN [threw |-> "", handoffs |-> handoffFiles, readmes |-> readmeFiles]
  ELSE IF handoffFileOf(phase) = {}
    THEN [threw |-> "Unknown phase", handoffs |-> handoffFiles, readmes |-> readmeFiles]
  ELSE IF projectId \notin projectDirs \/ fault = "writeFile"
    THEN [threw |-> "writeFile", handoffs |-> handoffFiles, readmes |-> readmeFiles]
  ELSE [threw |-> "",
        handoffs |->
          [f \in DOMAIN handoffFiles \cup {<<projectId, hf>> : hf \in handoffFileOf(phase)} |->
             IF f[1] = projectId /\ f[2] \in handoffFileOf(phase)
               THEN [phase |-> phase, deliverables |-> deliverables]
               ELSE handoffFiles[f]],
        readmes |-> updateProjectReadme(projectId, phase, fault)]

completePhase(projectId, phase, deliverables, fault) ==
  completePhaseIf(enabled, projectId, phase, deliverables, fault)

(***************************************************************************)
(* AgenticMCPServer.handleWorkflowHandoff                                  *)
(***************************************************************************)
indexOf(seq, x) ==
  IF \E i \in DOMAIN seq : seq[i] = x
    THEN (CHOOSE i \in DOMAIN seq : seq[i] = x /\ \A j \in 1..(i - 1) : seq[j] # x) - 1
    ELSE -1

(* off by one: takes the element at the declared phase's own position *)
nextPhaseOfSameIndex(currentPhase) ==
  LET currentIndex == indexOf(phaseOrder, currentPhase)
  IN IF currentIndex >= 0 /\ currentIndex < Len(phaseOrder) - 1
       THEN phaseOrder[currentIndex + 1]
       ELSE "complete"

nextPhaseOf(currentPhase) ==
  LET currentIndex == indexOf(phaseOrder, currentPhase)
  IN IF currentIndex < Len(phaseOrder) - 1
       THEN phaseOrder[currentIndex + 1 + 1]
       ELSE "complete"

(* refuses to move a project that is not in the declared phase *)
HandoffProjectsGuarded(projectId, currentPhase) ==
  IF nextPhaseOf(currentPhase) # "complete" /\ projects[projectId].currentPhase = currentPhase
    THEN [projects EXCEPT ![projectId].currentPhase = nextPhaseOf(currentPhase)]
    ELSE projects

HandoffProjects(projectId, currentPhase) ==
  IF nextPhaseOf(currentPhase) # "complete"
    THEN [projects EXCEPT ![projectId].currentPhase = nextPhaseOf(currentPhase)]
    ELSE projects

handleWorkflowHandoff(projectId, currentPhase, phaseDeliverables, fault) ==
  /\ IF projectId \notin DOMAIN projects
       THEN /\ last' = Outcome("workflow_handoff", projectId, NoTask, currentPhase,
                               Err("InternalError", "Project not found"), {})
            /\ UNCHANGED <<projects, checkpoints, created, mirror>>
       ELSE /\ CanInsert
            /\ LET id == created.checkpoint + 1
                   sync == completePhase(projectId, currentPhase, phaseDeliverables, fault)
               IN /\ checkpoints' = (id :> createCheckpoint(projectId, currentPhase))
                                      @@ checkpoints
                  /\ created' = [created EXCEPT !.checkpoint = @ + 1]
                  /\ projects' = HandoffProjects(projectId, currentPhase)
                  /\ handoffFiles' = sync.handoffs
                  /\ readmeFiles' = sync.readmes
                  /\ UNCHANGED <<projectDirs, specFiles>>
                  /\ last' = Outcome("workflow_handoff", projectId, id, currentPhase,
                                     IF sync.threw # ""
                                       THEN Err("InternalError", sync.threw)
                                       ELSE Ok,
                                     [toPhase |-> nextPhaseOf(currentPhase),
                                      deliverables |-> phaseDeliverables,
                                      fromPhase |-> projects[projectId].currentPhase,
                                      threw |-> sync.threw])
  /\ UNCHANGED <<tasks, sessions, now, tieBreak, enabled, specDir, inflight>>

(***************************************************************************)
(* handleWorkflowHandoff cut short: the process stops after the INSERT of  *)
(* createCheckpoint has committed (no transaction is open) and before      *)
(* projectRepo.update runs.                                                *)
(***************************************************************************)
HandoffStopped(projectId, currentPhase) ==
  /\ projectId \in DOMAIN projects
  /\ CanInsert
  /\ checkpoints' = ((created.checkpoint + 1) :> createCheckpoint(projectId, currentPhase))
                      @@ checkpoints
  /\ created' = [created EXCEPT !.checkpoint = @ + 1]
  /\ last' = Outcome("process.stopped", projectId, created.checkpoint + 1, currentPhase,
                     Err("Stopped", "workflow_handoff"), {})
  /\ UNCHANGED <<projects, tasks, sessions, now, tieBreak, enabled, specDir, inflight, mirror>>

(***************************************************************************)
(* AgenticMCPServer.handleTaskProgress: 'started' is stored as             *)
(* 'in_progress'; the row count of the UPDATE is not looked at             *)
(***************************************************************************)
ProgressStatus(status) == IF status = "started" THEN "in_progress" ELSE status

(* the report reaches every task of the named task's project *)
handleTaskProgressProject(taskId, status) ==
  /\ IF ~isValidTaskStatus(ProgressStatus(status))
       THEN /\ last' = Outcome("task_progress", NoProject, taskId, "",
                               Err("InternalError", "Invalid task status"), status)
            /\ UNCHANGED tasks
     ELSE IF taskId \notin DOMAIN tasks
       THEN /\ last' = Outcome("task_progress", NoProject, taskId, "", Ok, status)
            /\ UNCHANGED tasks
     ELSE /\ tasks' = [t \in DOMAIN tasks |->
                         IF tasks[t].projectId = tasks[taskId].projectId
                           THEN [tasks[t] EXCEPT !.status = ProgressStatus(status),
                                                 !.assigneeType = "implementation"]
                           ELSE tasks[t]]
          /\ last' = Outcome("task_progress", NoProject, taskId, "", Ok, status)
  /\ UNCHANGED <<projects, sessions, checkpoints, created, now, tieBreak, enabled, specDir, inflight, mirror>>

handleTaskProgress(taskId, status) ==
  /\ IF ~isValidTaskStatus(ProgressStatus(status))
       THEN /\ last' = Outcome("task_progress", NoProject, taskId, "",
                               Err("InternalError", "Invalid task status"), status)
            /\ UNCHANGED tasks
     ELSE IF taskId \notin DOMAIN tasks
       THEN /\ last' = Outcome("task_progress", NoProject, taskId, "", Ok, status)
            /\ UNCHANGED tasks
     ELSE /\ tasks' = [tasks EXCEPT ![taskId].status = ProgressStatus(status),
                                    ![taskId].assigneeType = "implementation"]
          /\ last' = Outcome("task_progress", NoProject, taskId, "", Ok, status)
  /\ UNCHANGED <<projects, sessions, checkpoints, created, now, tieBreak, enabled, specDir, inflight, mirror>>

(***************************************************************************)
(* FileSync.findExistingDocument and writeSpecFile.  A path is the triple  *)
(* of a directory, the project's sub-directory and the file name; files is *)
(* the file system the call finds.                                         *)
(***************************************************************************)
searchPaths(projectId, fileName) ==
  << <<specDir, projectId, fileName>>,
     <<"cwd", "", fileName>>,
     <<DefaultSpecDir, projectId, fileName>> >>

(* looks at the primary location only *)
findExistingDocumentPrimaryOnly(files, projectId, fileName) ==
  {searchPaths(projectId, fileName)[1]} \cap DOMAIN files

findExistingDocument(files, projectId, fileName) ==
  LET paths == searchPaths(projectId, fileName)
      found == {i \in DOMAIN paths : paths[i] \in DOMAIN files}
  IN {paths[i] : i \in {j \in found : \A k \in found : j <= k}}

writeSpecFile(files, projectId, fileName, content) ==
  LET existingPath == findExistingDocument(files, projectId, fileName)
  IN IF ~enabled
       THEN files
     ELSE IF existingPath # {}
       THEN [f \in DOMAIN files |-> IF f \in existingPath THEN content ELSE files[f]]
     ELSE (searchPaths(projectId, fileName)[1] :> content) @@ files

WriteSpecFile(projectId, fileName, content) ==
  /\ specFiles' = writeSpecFile(specFiles, projectId, fileName, content)
  /\ last' = Outcome("writeSpecFile", projectId, NoTask, "", Ok,
                     [fileName |-> fileName, content |-> content])
  /\ UNCHANGED <<store, created, now, tieBreak, enabled, specDir, inflight,
                 projectDirs, readmeFiles, handoffFiles>>

(* a document is saved, by an editor, at one of the locations searched *)
SaveDocument(path, content) ==
  /\ specFiles' = (path :> content) @@ [f \in DOMAIN specFiles \ {path} |-> specFiles[f]]
  /\ last' = Outcome("saveDocument", path[2], NoTask, "", Ok,
                     [fileName |-> path[3], content |-> content])
  /\ UNCHANGED <<store, created, now, tieBreak, enabled, specDir, inflight,
                 projectDirs, readmeFiles, handoffFiles>>

(***************************************************************************)
(* FileSync.createSpecFiles: mkdir -p specDir/<projectName>, then the four *)
(* template files are written afresh                                       *)
(***************************************************************************)
SpecTemplates == {"requirements.md", "design.md", "tasks.md", "README.md"}

createSpecFiles(files, projectName) ==
  IF ~enabled
    THEN files
    ELSE [f \in DOMAIN files \cup {<<specDir, projectName, t>> : t \in SpecTemplates} |->
            IF f[1] = specDir /\ f[2] = projectName /\ f[3] \in SpecTemplates
              THEN "created"
              ELSE files[f]]

(***************************************************************************)
(* SpecHandlers.handleSpecCreate.  KebabCase holds the feature names that  *)
(* match /^[a-z][a-z0-9-]*[a-z0-9]$/.                                      *)
(***************************************************************************)
KebabCase == {"alpha"} \cup Range(ProjectIdStr)

Awaiting == {<<"status", "awaiting_collaboration">>}

handleSpecCreate(featureName, fault) ==
  /\ created.project + created.task + created.session + created.checkpoint + 2 <= MaxRows
  /\ LET id == ProjectIdStr[created.project + 1]
         files == createProjectFiles(id, featureName, fault)
     IN IF featureName \notin KebabCase
          THEN /\ last' = Outcome("spec_create", NoProject, NoTask, "",
                                  Err("InvalidParams", "kebab-case"), featureName)
               /\ UNCHANGED <<store, created, mirror>>
        ELSE IF NameTaken(featureName)
          THEN /\ last' = Outcome("spec_create", NoProject, NoTask, "",
                                  Err("InvalidParams", "already exists"), featureName)
               /\ UNCHANGED <<store, created, mirror>>
        ELSE IF files.threw
          THEN /\ projects' = (id :> NewProject(featureName)) @@ projects
               /\ created' = [created EXCEPT !.project = @ + 1]
               /\ projectDirs' = files.dirs
               /\ readmeFiles' = files.readmes
               /\ last' = Outcome("spec_create", id, NoTask, "",
                                  Err("InternalError", "Failed to create spec"), featureName)
               /\ UNCHANGED <<tasks, sessions, checkpoints, handoffFiles, specFiles>>
        ELSE /\ projects' = (id :> NewProject(featureName)) @@ projects
             /\ projectDirs' = files.dirs
             /\ readmeFiles' = files.readmes
             /\ specFiles' = writeSpecFile(createSpecFiles(specFiles, featureName),
                                           featureName, "requirements.md", "template")
             /\ sessions' = ((created.session + 1) :>
                               NewSession(id, NoTask, "requirements",
                                          Awaiting \cup {<<"featureName", featureName>>}))
                              @@ sessions
             /\ created' = [created EXCEPT !.project = @ + 1, !.session = @ + 1]
             /\ last' = Outcome("spec_create", id, created.session + 1, "requirements",
                                Ok, featureName)
             /\ UNCHANGED <<tasks, checkpoints, handoffFiles>>
  /\ UNCHANGED <<now, tieBreak, enabled, specDir, inflight>>

(***************************************************************************)
(* SpecHandlers.handleSpecDesign and handleSpecTasks: the context of the   *)
(* phase before must exist; the template is written, the project moves to  *)
(* the phase and a session of the phase is created                         *)
(***************************************************************************)
SpecPhase(op, projectId, before, phase, based) ==
  /\ CanInsert
  /\ IF projectId \notin DOMAIN projects
       THEN /\ last' = Outcome(op, projectId, NoTask, phase,
                               Err("InvalidParams", "Project not found"), {})
            /\ UNCHANGED <<projects, sessions, created, specFiles>>
     ELSE IF findByProjectAndType(projectId, before) = {}
       THEN /\ last' = Outcome(op, projectId, NoTask, phase,
                               Err("InvalidParams", "not found"), {})
            /\ UNCHANGED <<projects, sessions, created, specFiles>>
     ELSE /\ specFiles' = writeSpecFile(specFiles, projects[projectId].name,
                                        phase \o ".md", "template")
          /\ projects' = [projects EXCEPT ![projectId].currentPhase = phase]
          /\ sessions' = ((created.session + 1) :>
                            NewSession(projectId, NoTask, phase,
                                       Awaiting \cup {<<based, "true">>}))
                           @@ sessions
          /\ created' = [created EXCEPT !.session = @ + 1]
          /\ last' = Outcome(op, projectId, created.session + 1, phase, Ok, {})
  /\ UNCHANGED <<tasks, checkpoints, now, tieBreak, enabled, specDir, inflight,
                 projectDirs, readmeFiles, handoffFiles>>

handleSpecDesign(projectId) ==
  SpecPhase("spec_design", projectId, "requirements", "design", "basedOnRequirements")

handleSpecTasks(projectId) ==
  SpecPhase("spec_tasks", projectId, "design", "tasks", "basedOnDesign")

(***************************************************************************)
(* SpecHandlers.handleSpecExecute; taskId NoTask is an omitted taskId      *)
(***************************************************************************)
handleSpecExecute(projectId, taskId) ==
  /\ IF projectId \notin DOMAIN projects
       THEN /\ last' = Outcome("spec_execute", projectId, taskId, "",
                               Err("InvalidParams", "Project not found"), {})
            /\ UNCHANGED <<projects, tasks>>
     ELSE IF taskId # NoTask /\ \A t \in TaskFindById(taskId) : t.projectId # projectId
       THEN /\ last' = Outcome("spec_execute", projectId, taskId, "",
                               Err("InvalidParams", "Task not found in project"), {})
            /\ UNCHANGED <<projects, tasks>>
     ELSE LET pendingTasks == FindByProject(projectId, [status |-> "pending", phase |-> ""])
          IN IF taskId = NoTask /\ pendingTasks = << >>
               THEN /\ last' = Outcome("spec_execute", projectId, taskId, "", Ok,
                                       [success |-> FALSE])
                    /\ UNCHANGED <<projects, tasks>>
               ELSE LET task == IF taskId # NoTask THEN taskId ELSE pendingTasks[1]
                    IN /\ tasks' = [tasks EXCEPT ![task].status = "in_progress"]
                       /\ projects' = [projects EXCEPT ![projectId].currentPhase = "execute"]
                       /\ last' = Outcome("spec_execute", projectId, task, "", Ok,
                                          [success |-> TRUE])
  /\ UNCHANGED <<sessions, checkpoints, created, now, tieBreak, enabled, specDir, inflight, mirror>>

(***************************************************************************)
(* AgentSessionRepository.updateContext as its two statements.  The call   *)
(* awaits findById, so another call can run between its SELECT and its     *)
(* UPDATE; inflight[caller] keeps what the SELECT returned.                *)
(***************************************************************************)
Callers == {1, 2}

(* the merge is made with the blob stored when the UPDATE runs *)
mergedContextStored(caller) ==
  SpreadMerge(sessions[inflight[caller].id].contextData, inflight[caller].context)

mergedContext(caller) ==
  SpreadMerge(inflight[caller].read, inflight[caller].context)

updateContextRead(caller, id, context) ==
  /\ caller \notin DOMAIN inflight
  /\ IF id \notin DOMAIN sessions
       THEN /\ last' = Outcome("updateContext.read", NoProject, id, "",
                               Err("Error", "Agent session not found"), {})
            /\ UNCHANGED inflight
       ELSE /\ inflight' = (caller :> [op |-> "updateContext", id |-> id,
                                       context |-> context,
                                       read |-> sessions[id].contextData]) @@ inflight
            /\ last' = Outcome("updateContext.read", NoProject, id, "", Ok, {})
  /\ UNCHANGED <<store, created, now, tieBreak, enabled, specDir, mirror>>

updateContextWrite(caller) ==
  /\ caller \in DOMAIN inflight
  /\ inflight[caller].op = "updateContext"
  /\ LET id == inflight[caller].id
     IN IF id \notin DOMAIN sessions
          THEN /\ last' = Outcome("updateContext.write", NoProject, id, "", Ok,
                                  [context |-> inflight[caller].context,
                                   read |-> inflight[caller].read, stored |-> {}])
               /\ UNCHANGED sessions
          ELSE /\ sessions' = [sessions EXCEPT ![id].contextData = mergedContext(caller),
                                               ![id].lastActive = now]
               /\ last' = Outcome("updateContext.write", NoProject, id, "", Ok,
                                  [context |-> inflight[caller].context,
                                   read |-> inflight[caller].read,
                                   stored |-> sessions[id].contextData])
  /\ inflight' = Remove(inflight, {caller})
  /\ UNCHANGED <<projects, tasks, checkpoints, created, now, tieBreak, enabled, specDir, mirror>>

(***************************************************************************)
(* WorkflowRepository.createCheckpoint as its statements: the query for    *)
(* the completed tasks is awaited, then the query for the in-progress      *)
(* tasks, then the INSERT of create; no transaction spans them             *)
(***************************************************************************)
createCheckpointCompleted(caller, projectId, phase) ==
  /\ caller \notin DOMAIN inflight
  /\ inflight' = (caller :> [op |-> "createCheckpoint", projectId |-> projectId,
                             phase |-> phase,
                             completedTasks |->
                               FindByProject(projectId, [phase |-> phase,
                                                         status |-> "completed"])])
                   @@ inflight
  /\ last' = Outcome("createCheckpoint.completed", projectId, NoTask, phase, Ok, {})
  /\ UNCHANGED <<store, created, now, tieBreak, enabled, specDir, mirror>>

createCheckpointInsert(caller) ==
  /\ caller \in DOMAIN inflight
  /\ inflight[caller].op = "createCheckpoint"
  /\ CanInsert
  /\ LET call == inflight[caller]
         inProgressTasks == FindByProject(call.projectId, [phase |-> call.phase,
                                                           status |-> "in_progress"])
         id == created.checkpoint + 1
     IN IF call.projectId \notin DOMAIN projects
          THEN /\ last' = Outcome("createCheckpoint", call.projectId, NoTask, call.phase,
                                  Err("SqliteError", "FOREIGN KEY constraint failed"), {})
               /\ UNCHANGED <<checkpoints, created>>
          ELSE /\ checkpoints' =
                    (id :> [projectId |-> call.projectId,
                            phase |-> call.phase,
                            checkpointData |->
                              [completedTasks |-> call.completedTasks,
                               currentTask |-> IF Len(inProgressTasks) > 0
                                                 THEN inProgressTasks[1] ELSE NoTask,
                               phaseDeliverables |-> {}],
                            createdAt |-> now]) @@ checkpoints
               /\ created' = [created EXCEPT !.checkpoint = @ + 1]
               /\ last' = Outcome("createCheckpoint", call.projectId, id, call.phase, Ok, {})
  /\ inflight' = Remove(inflight, {caller})
  /\ UNCHANGED <<projects, tasks, sessions, now, tieBreak, enabled, specDir, mirror>>

(***************************************************************************)
(* The workflow specification: projects, their tasks, sessions and         *)
(* checkpoints, driven through the repositories and the server tools.      *)
(***************************************************************************)
ProjectNames == BaseNames \cup {ProjectIdStr[i] : i \in 1..created.project}
CheckpointUpdates == {[phase |-> "execute"]}

Next ==
  \/ \E name \in ProjectNames : handleProjectCreate(name, "none")
  \/ \E id \in DOMAIN projects : ProjectDelete(id)
  \/ \E projectId \in DOMAIN projects, phase \in TaskPhaseInputs, status \in {"", "completed"} :
       TaskCreate(projectId, NoTask, phase, status, 0, {})
  \/ \E id \in DOMAIN tasks, status \in {"in_progress", "completed"} : TaskUpdate(id, status)
  \/ \E projectId \in DOMAIN projects, currentPhase \in ProjectPhases,
        phaseDeliverables \in DeliverableInputs :
       handleWorkflowHandoff(projectId, currentPhase, phaseDeliverables, "none")
  \/ \E id \in DOMAIN checkpoints, updates \in CheckpointUpdates :
       CheckpointUpdate(id, updates)
  \/ \E projectId \in DOMAIN projects : ResumeWorkflow(projectId)

Spec == Init /\ [][Next]_vars

(***************************************************************************)
(* The dependency specification: one project's tasks, their dependency     *)
(* lists and the gate that reads them.                                     *)
(***************************************************************************)
DependencyInputs == SUBSET (DOMAIN tasks \cup {GhostTask})

NextDeps ==
  \/ handleProjectCreate("alpha", "none")
  \/ \E projectId \in DOMAIN projects, dependencies \in DependencyInputs :
       TaskCreate(projectId, NoTask, "requirements", "", 0, dependencies)
  \/ \E id \in DOMAIN tasks, status \in {"in_progress", "completed"} : TaskUpdate(id, status)
  \/ \E id \in DOMAIN tasks : TaskDelete(id)
  \/ \E id \in DOMAIN tasks : CheckDependencies(id)

(* the dependency gate reads table tasks alone: mirroring and the scan      *)
(* order of equal timestamps are fixed here                                *)
InitDeps == Init /\ ~enabled /\ tieBreak = "rowidAsc"

SpecDeps == InitDeps /\ [][NextDeps]_vars

(***************************************************************************)
(* The tree specification: tasks with parents, in one or two projects, and *)
(* the forest built from them.                                             *)
(***************************************************************************)
NextTree ==
  \/ \E name \in ProjectNames : handleProjectCreate(name, "none")
  \/ \E projectId \in DOMAIN projects, parentId \in DOMAIN tasks \cup {NoTask},
        priority \in {0, 2}, dependencies \in SUBSET DOMAIN tasks :
       TaskCreate(projectId, parentId, "requirements", "", priority, dependencies)
  \/ \E id \in DOMAIN tasks : TaskDelete(id)
  \/ \E projectId \in DOMAIN projects : GetTaskTree(projectId)

SpecTree == Init /\ [][NextTree]_vars

(***************************************************************************)
(* The handoff specification: the handoff tool under every input it takes, *)
(* failing file-system calls and a process that stops.                     *)
(***************************************************************************)
GhostProject == "p0"
DeclaredPhases == ProjectPhases \cup {"invalid_phase"}
FsFaults == {"none", "writeFile"}

NextHandoff ==
  \/ \E name \in ProjectNames, fault \in FsFaults : handleProjectCreate(name, fault)
  \/ \E projectId \in DOMAIN projects \cup {GhostProject}, currentPhase \in DeclaredPhases,
        phaseDeliverables \in DeliverableInputs, fault \in FsFaults :
       handleWorkflowHandoff(projectId, currentPhase, phaseDeliverables, fault)
  \/ \E projectId \in DOMAIN projects, currentPhase \in ProjectPhases :
       HandoffStopped(projectId, currentPhase)

SpecHandoff == Init /\ [][NextHandoff]_vars

(***************************************************************************)
(* The context specification: sessions of a project and their context.     *)
(***************************************************************************)
UpdateInputs == {{<<"b", 2>>}, {<<"a", 2>>, <<"c", 3>>}}

NextContext ==
  \/ Tick
  \/ handleProjectCreate("alpha", "none")
  \/ \E projectId \in DOMAIN projects, context \in ContextInputs :
       handleContextSave(projectId, "design", context)
  \/ \E id \in DOMAIN sessions, context \in UpdateInputs : updateContext(id, context)
  \/ \E projectId \in DOMAIN projects : GetAllContexts(projectId)
  \/ \E projectId \in DOMAIN projects \cup {GhostProject} : handleContextLoad(projectId)

(* no session operation reaches FileSync: mirroring is fixed here *)
InitContext == Init /\ ~enabled

SpecContext == InitContext /\ [][NextContext]_vars

(***************************************************************************)
(* The assignment specification: sessions saved, updated and assigned to   *)
(* tasks, and the lookup by project and agent type.                        *)
(***************************************************************************)
AssignTypes == {"design", "tasks", "bogus"}

NextAssign ==
  \/ Tick
  \/ \E name \in ProjectNames : handleProjectCreate(name, "none")
  \/ \E projectId \in DOMAIN projects :
       TaskCreate(projectId, NoTask, "requirements", "", 0, {})
  \/ \E projectId \in DOMAIN projects, agentType \in {"design", "tasks"} :
       handleContextSave(projectId, agentType, {<<"a", 1>>})
  \/ \E id \in DOMAIN sessions : updateContext(id, {<<"b", 2>>})
  \/ \E taskId \in DOMAIN tasks \cup {GhostTask}, agentType \in AssignTypes :
       AssignAgent(taskId, agentType)

SpecAssign == InitContext /\ [][NextAssign]_vars

(***************************************************************************)
(* The resume specification: projects with tasks and checkpoints, resumed  *)
(* through the workflow repository and through the workflow_resume tool.   *)
(***************************************************************************)
NextResume ==
  \/ Tick
  \/ \E name \in ProjectNames : handleProjectCreate(name, "none")
  \/ \E projectId \in DOMAIN projects, phase \in {"requirements", "design"},
        status \in {"", "completed"} :
       TaskCreate(projectId, NoTask, phase, status, 0, {})
  \/ \E projectId \in DOMAIN projects, currentPhase \in {"requirements", "design"} :
       handleWorkflowHandoff(projectId, currentPhase, {}, "none")
  \/ \E projectId \in DOMAIN projects \cup {GhostProject} : ResumeWorkflow(projectId)
  \/ \E projectId \in DOMAIN projects \cup {GhostProject} : handleWorkflowResume(projectId)

SpecResume == InitContext /\ [][NextResume]_vars

(***************************************************************************)
(* The enumeration specification: every operation that writes a status or  *)
(* a phase, under arguments inside and outside the enumerations.           *)
(***************************************************************************)
FeatureNames == {"alpha", "Bad_Name"}
StatusInputs == {"", "blocked", "done"}
ProgressInputs == {"started", "completed", "invalid_status"}

NextEnums ==
  \/ \E name \in BaseNames, status \in {"", "completed", "archived"},
        currentPhase \in {"", "invalid_phase"} :
       ProjectCreate(name, status, currentPhase)
  \/ \E featureName \in FeatureNames : handleSpecCreate(featureName, "none")
  \/ \E id \in DOMAIN projects \cup {GhostProject}, status \in {"", "paused", "archived"},
        phase \in {"", "tasks", "invalid_phase"} :
       ProjectUpdate(id, status, phase)
  \/ \E projectId \in DOMAIN projects, phase \in {"design", "invalid_phase"},
        status \in StatusInputs :
       TaskCreate(projectId, NoTask, phase, status, 0, {})
  \/ \E taskId \in DOMAIN tasks \cup {GhostTask}, status \in ProgressInputs :
       handleTaskProgress(taskId, status)
  \/ \E projectId \in DOMAIN projects, currentPhase \in {"requirements", "invalid_phase"} :
       handleWorkflowHandoff(projectId, currentPhase, {}, "none")
  \/ \E projectId \in DOMAIN projects \cup {GhostProject} : handleSpecDesign(projectId)
  \/ \E projectId \in DOMAIN projects \cup {GhostProject} : handleSpecTasks(projectId)
  \/ \E projectId \in DOMAIN projects \cup {GhostProject},
        taskId \in DOMAIN tasks \cup {NoTask, GhostTask} :
       handleSpecExecute(projectId, taskId)

SpecEnums == InitContext /\ [][NextEnums]_vars

(***************************************************************************)
(* The reference specification: rows created for projects that exist, that *)
(* never existed and that have been deleted.                               *)
(***************************************************************************)
EverProjects == {ProjectIdStr[i] : i \in 1..created.project} \cup {GhostProject}

NextForeign ==
  \/ \E name \in ProjectNames : handleProjectCreate(name, "none")
  \/ \E id \in DOMAIN projects : ProjectDelete(id)
  \/ \E projectId \in EverProjects, parentId \in DOMAIN tasks \cup {NoTask} :
       TaskCreate(projectId, parentId, "requirements", "", 0, {})
  \/ \E projectId \in EverProjects, taskId \in DOMAIN tasks \cup {NoTask} :
       SessionCreate(projectId, taskId, "design", {})
  \/ \E projectId \in EverProjects : CreateCheckpoint(projectId, "requirements")

SpecForeign == InitContext /\ [][NextForeign]_vars

(***************************************************************************)
(* The document specification: documents written through FileSync and the  *)
(* spec tools, and saved by hand at the locations FileSync searches, with  *)
(* specDir at its default and at a directory of its own.                   *)
(***************************************************************************)
DocumentDirs == {"alpha"}
DocumentNames == {"design.md", "notes.md"}
DocumentPaths ==
  UNION {Range(searchPaths(projectId, fileName)) :
           projectId \in DocumentDirs, fileName \in DocumentNames}

NextFiles ==
  \/ \E projectId \in DocumentDirs, fileName \in DocumentNames, content \in {"v1", "v2"} :
       WriteSpecFile(projectId, fileName, content)
  \/ \E path \in DocumentPaths : SaveDocument(path, "draft")
  \/ \E featureName \in DocumentDirs : handleSpecCreate(featureName, "none")
  \/ \E projectId \in DOMAIN projects : handleSpecDesign(projectId)

InitFiles ==
  /\ InitRows
  /\ tieBreak = "rowidAsc"
  /\ specDir \in {DefaultSpecDir, "specs"}

SpecFiles == InitFiles /\ [][NextFiles]_vars

(***************************************************************************)
(* The interleaving specification: two callers whose repository calls      *)
(* overlap at the points where the calls await.                            *)
(***************************************************************************)
NextRace ==
  \/ handleProjectCreate("alpha", "none")
  \/ \E projectId \in DOMAIN projects : handleContextSave(projectId, "design", {<<"a", 1>>})
  \/ \E caller \in Callers, id \in DOMAIN sessions, context \in {{<<"b", 2>>}, {<<"c", 3>>}} :
       updateContextRead(caller, id, context)
  \/ \E caller \in Callers : updateContextWrite(caller)

SpecRace == InitDeps /\ [][NextRace]_vars

(***************************************************************************)
(* The snapshot specification: a checkpoint is taken while another actor   *)
(* reports on the project's tasks.                                         *)
(***************************************************************************)
NextSnapshot ==
  \/ handleProjectCreate("alpha", "none")
  \/ \E projectId \in DOMAIN projects, status \in {"", "completed"} :
       TaskCreate(projectId, NoTask, "requirements", status, 0, {})
  \/ \E id \in DOMAIN tasks, status \in {"in_progress", "completed"} : TaskUpdate(id, status)
  \/ \E projectId \in DOMAIN projects : createCheckpointCompleted(1, projectId, "requirements")
  \/ createCheckpointInsert(1)

SpecSnapshot == InitDeps /\ [][NextSnapshot]_vars

(***************************************************************************)
(* The cascade specification: rows of all four tables and their deletion.  *)
(***************************************************************************)
NextCascade ==
  \/ \E name \in ProjectNames : handleProjectCreate(name, "none")
  \/ \E projectId \in DOMAIN projects, parentId \in DOMAIN tasks \cup {NoTask} :
       TaskCreate(projectId, parentId, "requirements", "", 0, {})
  \/ \E projectId \in DOMAIN projects, taskId \in DOMAIN tasks \cup {NoTask} :
       SessionCreate(projectId, taskId, "design", {<<"a", 1>>})
  \/ \E projectId \in DOMAIN projects :
       handleWorkflowHandoff(projectId, "requirements", {}, "none")
  \/ \E id \in DOMAIN tasks : TaskDelete(id)
  \/ \E id \in DOMAIN projects : ProjectDelete(id)

SpecCascade == Init /\ [][NextCascade]_vars

(***************************************************************************)
(* The execution specification: a feature taken through the spec tools,    *)
(* with tasks that depend on one another.                                  *)
(***************************************************************************)
NextExecute ==
  \/ handleSpecCreate("alpha", "none")
  \/ \E projectId \in DOMAIN projects, dependencies \in SUBSET DOMAIN tasks :
       TaskCreate(projectId, NoTask, "execute", "", 0, dependencies)
  \/ \E id \in DOMAIN tasks : TaskUpdate(id, "completed")
  \/ \E projectId \in DOMAIN projects \cup {GhostProject} : handleSpecDesign(projectId)
  \/ \E projectId \in DOMAIN projects \cup {GhostProject} : handleSpecTasks(projectId)
  \/ \E projectId \in DOMAIN projects \cup {GhostProject},
        taskId \in DOMAIN tasks \cup {NoTask, GhostTask} :
       handleSpecExecute(projectId, taskId)

SpecExecute == Init /\ [][NextExecute]_vars

(***************************************************************************)
(* The gating specification: the spec steps that read the context of the   *)
(* step before, beside the tools that create projects and save context.    *)
(* No action of it changes or removes a session.                           *)
(***************************************************************************)
NextGate ==
  \/ handleProjectCreate("alpha", "none")
  \/ handleSpecCreate("alpha", "none")
  \/ \E projectId \in DOMAIN projects, agentType \in {"requirements", "design"} :
       handleContextSave(projectId, agentType, {<<"a", 1>>})
  \/ \E projectId \in DOMAIN projects \cup {GhostProject} : handleSpecDesign(projectId)
  \/ \E projectId \in DOMAIN projects \cup {GhostProject} : handleSpecTasks(projectId)

SpecGate == Init /\ [][NextGate]_vars

(***************************************************************************)
(* Properties                                                              *)
(***************************************************************************)
Ids(rows) == {rows[i].id : i \in DOMAIN rows}

HandoffRan == last.op = "workflow_handoff" /\ last.id # NoTask

(* C1: a handoff on an existing project whose declared phase is            *)
(* requirements, design or tasks leaves the project's current phase at the *)
(* element that follows the declared phase in                              *)
(* [requirements, design, tasks, execute].                                 *)
C1_HandoffAdvancesPhase ==
  (HandoffRan /\ last.phase \in {"requirements", "design", "tasks"}) =>
     \E i \in 1..3 : /\ phaseOrder[i] = last.phase
                     /\ projects[last.projectId].currentPhase = phaseOrder[i + 1]

C1_Witness ==
  /\ HandoffRan
  /\ last.phase = "design"
  /\ projects[last.projectId].currentPhase = "tasks"

(* C2: a handoff on an existing project whose declared phase is "execute"  *)
(* sets the project's status to completed and leaves its phase inside the  *)
(* phase enumeration, with mirroring enabled or disabled.                  *)
C2_ExecuteHandoffCompletes ==
  (HandoffRan /\ last.phase = "execute") =>
     /\ projects[last.projectId].status = "completed"
     /\ projects[last.projectId].currentPhase \in ProjectPhases

C3_CheckpointOf(c, projectId, phase) ==
  LET done == {t \in DOMAIN tasks : /\ tasks[t].projectId = projectId
                                    /\ tasks[t].phase = phase
                                    /\ tasks[t].status = "completed"}
      busy == {t \in DOMAIN tasks : /\ tasks[t].projectId = projectId
                                    /\ tasks[t].phase = phase
                                    /\ tasks[t].status = "in_progress"}
  IN /\ c.projectId = projectId
     /\ c.phase = phase
     /\ Range(c.checkpointData.completedTasks) = done
     /\ Len(c.checkpointData.completedTasks) = Cardinality(done)
     /\ IF busy = {} THEN c.checkpointData.currentTask = NoTask
                     ELSE c.checkpointData.currentTask \in busy

C4_CheckpointsImmutable ==
  [][/\ \A c \in DOMAIN checkpoints \cap DOMAIN checkpoints' :
          checkpoints'[c] = checkpoints[c]
     /\ last'.op = "checkpoint.update" =>
          /\ last'.outcome = Err("Error", "Workflow checkpoints cannot be updated")
          /\ UNCHANGED store]_vars

C4_Witness ==
  /\ last.op = "checkpoint.update"
  /\ last.id \in DOMAIN checkpoints

NoTaskTimestamps(rows) ==
  [i \in DOMAIN rows |->
     [id |-> rows[i].id,
      row |-> [f \in DOMAIN rows[i].row \ {"createdAt"} |-> rows[i].row[f]]]]

NoTimestamps(r) ==
  [project |-> r.project,
   currentPhase |-> r.currentPhase,
   checkpoint |-> {[id |-> c.id, projectId |-> c.row.projectId, phase |-> c.row.phase,
                    checkpointData |-> c.row.checkpointData] : c \in r.checkpoint},
   pendingTasks |-> NoTaskTimestamps(r.pendingTasks),
   completedTasks |-> NoTaskTimestamps(r.completedTasks)]

ResumeRan == last.op = "resumeWorkflow" /\ last.outcome = Ok

(* C5: a resume that directly follows a resume of the same project (no     *)
(* store mutation in between) returns a result equal to the first one,     *)
(* timestamps ignored.                                                     *)
C5_ResumeRepeatable ==
  ResumeRan =>
    \A before \in last.value.previous :
       NoTimestamps(last.value.result) = NoTimestamps(before)

C5_Witness ==
  /\ ResumeRan
  /\ last.value.previous # {}
  /\ last.value.result.checkpoint # {}
  /\ Len(last.value.result.pendingTasks) > 0

(* C6: resume on an existing project returns a completed list holding      *)
(* exactly the project's tasks of its current phase whose status is        *)
(* completed and a pending list holding exactly its other tasks of that    *)
(* phase; no task of another phase or project is in either list.           *)
C6_ResumePartitions ==
  ResumeRan =>
    LET r == last.value.result
        mine == {t \in DOMAIN tasks :
                   /\ tasks[t].projectId = last.projectId
                   /\ tasks[t].phase = projects[last.projectId].currentPhase}
    IN /\ Ids(r.completedTasks) = {t \in mine : tasks[t].status = "completed"}
       /\ Ids(r.pendingTasks) = {t \in mine : tasks[t].status # "completed"}
       /\ Len(r.completedTasks) + Len(r.pendingTasks) = Cardinality(mine)
       /\ \A i \in DOMAIN r.completedTasks :
            r.completedTasks[i].row = tasks[r.completedTasks[i].id]
       /\ \A i \in DOMAIN r.pendingTasks :
            r.pendingTasks[i].row = tasks[r.pendingTasks[i].id]

C6_Witness ==
  /\ ResumeRan
  /\ Len(last.value.result.completedTasks) > 0
  /\ Len(last.value.result.pendingTasks) > 0
  /\ \E t \in DOMAIN tasks :
        /\ tasks[t].projectId = last.projectId
        /\ tasks[t].phase # projects[last.projectId].currentPhase

DepsChecked ==
  /\ last.op = "checkDependencies"
  /\ last.id \in DOMAIN tasks
  /\ tasks[last.id].dependencies # {}

IncompleteDeps(taskId) ==
  {d \in tasks[taskId].dependencies \cap DOMAIN tasks : tasks[d].status # "completed"}

(* C7: for a task with a non-empty dependency list, checkDependencies      *)
(* returns false exactly when some listed task exists with a status other  *)
(* than completed; and the call that directly follows the update marking   *)
(* the last such dependency completed returns true.                        *)
C7_DependencyGate ==
  /\ [](DepsChecked => (last.value = FALSE <=> IncompleteDeps(last.id) # {}))
  /\ [][(/\ last.op = "task.update"
         /\ last'.op = "checkDependencies"
         /\ last'.id \in DOMAIN tasks
         /\ last.id \in tasks[last'.id].dependencies
         /\ last.id \in DOMAIN tasks
         /\ tasks[last.id].status = "completed"
         /\ IncompleteDeps(last'.id) = {})
        => last'.value = TRUE]_vars

C7_Witness ==
  /\ DepsChecked
  /\ last.value = FALSE
  /\ \E d \in IncompleteDeps(last.id) : tasks[d].status = "in_progress"
  /\ \E d \in tasks[last.id].dependencies \cap DOMAIN tasks : tasks[d].status = "completed"

(* C8: a dependency id that matches no task row never blocks: when every   *)
(* listed id is either missing or the id of a completed task,              *)
(* checkDependencies returns true.                                         *)
C8_DanglingNeverBlocks ==
  (/\ DepsChecked
   /\ \A d \in tasks[last.id].dependencies :
        d \notin DOMAIN tasks \/ tasks[d].status = "completed")
  => last.value = TRUE

C8_Witness ==
  /\ DepsChecked
  /\ last.value = TRUE
  /\ \E d \in tasks[last.id].dependencies : d \notin DOMAIN tasks
  /\ \E d \in tasks[last.id].dependencies : d \in DOMAIN tasks

(* C9: a context-save of {a: 1} directly followed by a context-save of     *)
(* {b: 2} for the same project and agent type leaves the context of the    *)
(* session found for that pair equal to {a: 1, b: 2}.                      *)
C9_SaveMerges ==
  [][(/\ last.op = "context_save" /\ last.outcome = Ok
      /\ last.value = {<<"a", 1>>}
      /\ last'.op = "context_save" /\ last'.outcome = Ok
      /\ last'.value = {<<"b", 2>>}
      /\ last'.projectId = last.projectId
      /\ last'.phase = last.phase)
     => /\ findByProjectAndType(last.projectId, last.phase)' # {}
        /\ \A s \in findByProjectAndType(last.projectId, last.phase)' :
             sessions'[s].contextData = {<<"a", 1>>, <<"b", 2>>}]_vars

(* C10: every task, session and checkpoint row belongs to a project row,   *)
(* and a successful project delete leaves no row for the project: a lookup *)
(* by id of anything that was attached to it finds nothing.                *)
C10_DeleteCascades ==
  /\ \A t \in DOMAIN tasks : ProjectFindById(tasks[t].projectId) # {}
  /\ \A s \in DOMAIN sessions : ProjectFindById(sessions[s].projectId) # {}
  /\ \A c \in DOMAIN checkpoints : ProjectFindById(checkpoints[c].projectId) # {}
  /\ (last.op = "project.delete" /\ last.value = TRUE)
       => /\ ProjectFindById(last.projectId) = {}
          /\ \A t \in 1..created.task :
               TaskFindById(t) # {} => tasks[t].projectId # last.projectId
          /\ \A n \in 1..created.session :
               SessionFindById(n) # {} => sessions[n].projectId # last.projectId
          /\ \A c \in 1..created.checkpoint :
               CheckpointFindById(c) # {} => checkpoints[c].projectId # last.projectId

C10_Witness ==
  /\ last.op = "project.delete" /\ last.value = TRUE
  /\ created.task > 0 /\ created.session > 0 /\ created.checkpoint > 0
  /\ TaskFindById(1) = {} /\ SessionFindById(1) = {} /\ CheckpointFindById(1) = {}

ProjectsNamed(name) == {p \in DOMAIN projects : projects[p].name = name}

(* C11: project creation with the name of an existing project fails with   *)
(* the already-exists error, adds no project and leaves every existing     *)
(* project row as it was; a creation that adds a project uses a name no    *)
(* existing project has.                                                   *)
C11_DuplicateNameRejected ==
  [][last'.op = "project_create" =>
       IF last'.outcome.code = "InvalidParams"
         THEN /\ ProjectsNamed(last'.value) # {}
              /\ projects' = projects
              /\ created' = created
         ELSE /\ last'.projectId \in DOMAIN projects' \ DOMAIN projects
              /\ ProjectsNamed(projects'[last'.projectId].name) = {}
              /\ \A p \in DOMAIN projects :
                   p \in DOMAIN projects' /\ projects'[p] = projects[p]]_vars

C11_Witness ==
  /\ last.op = "project_create"
  /\ last.outcome = Err("InvalidParams", "already exists")
  /\ Cardinality(ProjectsNamed(last.value)) = 1
  /\ \E p \in ProjectsNamed(last.value) : projects[p].currentPhase = "design"

(* the node ids met walking the forest from the given nodes, parents first *)
RECURSIVE PreOrder(_, _)
PreOrder(forest, nodes) ==
  IF nodes = << >> THEN << >>
  ELSE <<Head(nodes)>> \o PreOrder(forest, forest.children[Head(nodes)])
                       \o PreOrder(forest, Tail(nodes))

(* the node ids at the given depth of the forest *)
RECURSIVE Level(_, _)
Level(forest, depth) ==
  IF depth = 0 THEN Range(forest.rootTasks)
  ELSE UNION {Range(forest.children[n]) : n \in Level(forest, depth - 1)}

(* parent hops from t up to a task without a parent in S *)
RECURSIVE Hops(_, _)
Hops(t, S) ==
  IF tasks[t].parentId = NoTask \/ tasks[t].parentId \notin S
    THEN 0
    ELSE 1 + Hops(tasks[t].parentId, S)

TreeBuilt == last.op = "getTaskTree"

TasksOf(projectId) == {t \in DOMAIN tasks : tasks[t].projectId = projectId}

(* C12: the forest getTaskTree returns for a project holds every task of   *)
(* the project at exactly one position, has as roots exactly the tasks     *)
(* whose parent is unset or is no task of the project, and has every task  *)
(* at the depth given by its number of parent hops up to such a root.      *)
C12_TreePositions ==
  TreeBuilt =>
    LET forest == last.value
        S == TasksOf(last.projectId)
        positions == PreOrder(forest, forest.rootTasks)
    IN /\ Len(positions) = Cardinality(S)
       /\ Range(positions) = S
       /\ \A t \in S :
            (tasks[t].parentId = NoTask \/ tasks[t].parentId \notin S)
              => t \in Range(forest.rootTasks)
       /\ \A t \in S : t \in Level(forest, Hops(t, S))

C12_Witness ==
  /\ TreeBuilt
  /\ Level(last.value, 2) # {}
  /\ Len(last.value.rootTasks) = 1

FirstPhases == {"requirements", "design", "tasks"}

Successor(phase) == phaseOrder[(CHOOSE i \in 1..3 : phaseOrder[i] = phase) + 1]

(* C13: a handoff on an existing project whose declared phase is outside   *)
(* the phase enumeration is rejected as a validation error and changes     *)
(* neither the checkpoints nor the projects.                               *)
C13_InvalidPhaseRejected ==
  [][(/\ last'.op = "workflow_handoff"
      /\ last'.projectId \in DOMAIN projects
      /\ last'.phase \notin ProjectPhases)
     => /\ last'.outcome.code = "InvalidParams"
        /\ checkpoints' = checkpoints
        /\ projects' = projects]_vars

(* C14: a handoff naming a project id without a row fails with the project *)
(* not found error in the category of the caller's errors, not as an       *)
(* internal error, and creates no checkpoint.                              *)
C14_MissingProjectNotFound ==
  [][(/\ last'.op = "workflow_handoff"
      /\ last'.projectId \notin DOMAIN projects)
     => /\ last'.outcome.msg = "Project not found"
        /\ last'.outcome.code # "InternalError"
        /\ checkpoints' = checkpoints]_vars

(* C15: the checkpoint a handoff creates stores the deliverables the       *)
(* caller supplied.                                                        *)
C15_CheckpointKeepsDeliverables ==
  HandoffRan =>
    checkpoints[last.id].checkpointData.phaseDeliverables = last.value.deliverables

(* C16: a handoff whose declared phase is requirements, design or tasks    *)
(* and differs from the project's phase before the call is carried out all *)
(* the same: the checkpoint is inserted and the project's phase becomes    *)
(* the successor of the declared phase.                                    *)
C16_MismatchedHandoffAccepted ==
  (/\ HandoffRan
   /\ last.phase \in FirstPhases
   /\ last.value.fromPhase # last.phase)
  => /\ CheckpointFindById(last.id) # {}
     /\ projects[last.projectId].currentPhase = Successor(last.phase)
     /\ last.value.threw = "" => last.outcome = Ok

C16_Witness ==
  /\ HandoffRan
  /\ last.value.fromPhase = "execute"
  /\ last.phase = "requirements"
  /\ projects[last.projectId].currentPhase = "design"

(* C17: when the handoff has written the store and the write of the        *)
(* handoff document then fails, the checkpoint stays and the outcome is    *)
(* not an error.                                                           *)
C17_MirrorFailureIsWarning ==
  (HandoffRan /\ last.value.threw = "writeFile")
  => /\ CheckpointFindById(last.id) # {}
     /\ last.outcome.code \in {"OK", "Warning"}

(* C18: the store never gains a checkpoint of a handoff declared for       *)
(* requirements, design or tasks without the project moving to the         *)
(* successor phase in the same step, and a project row changes only in a   *)
(* step that also inserts a checkpoint.                                    *)
C18_HandoffAllOrNothing ==
  [][/\ \A c \in DOMAIN checkpoints' \ DOMAIN checkpoints :
          checkpoints'[c].phase \in FirstPhases
            => projects'[checkpoints'[c].projectId].currentPhase
                 = Successor(checkpoints'[c].phase)
     /\ (\E q \in DOMAIN projects \cap DOMAIN projects' : projects'[q] # projects[q])
          => DOMAIN checkpoints' \ DOMAIN checkpoints # {}]_vars

(* C19: with mirroring off no document is ever written and no handoff      *)
(* fails in the synchronizer; with mirroring on, a handoff in which no     *)
(* file write fails has the outcome it has with mirroring off.             *)
C19_ToggleOffSameOutcome ==
  /\ ~enabled => /\ projectDirs = {} /\ readmeFiles = << >> /\ handoffFiles = << >>
                 /\ HandoffRan => last.value.threw = ""
  /\ (HandoffRan /\ last.value.threw # "writeFile")
       => last.value.threw
            = completePhaseIf(FALSE, last.projectId, last.phase,
                              last.value.deliverables, "none").threw

(* id is met on the way from t up its chain of parents *)
RECURSIVE IsUnder(_, _)
IsUnder(t, id) ==
  \/ tasks[t].parentId = id
  \/ tasks[t].parentId \in DOMAIN tasks /\ IsUnder(tasks[t].parentId, id)

(* C20: deleting an existing task removes exactly the task and the tasks   *)
(* below it at any depth; every other task, the ones listing the deleted   *)
(* task as a dependency included, keeps its row unchanged.                 *)
C20_TaskDeleteCascades ==
  [][(last'.op = "task.delete" /\ last'.id \in DOMAIN tasks) =>
       LET gone == {last'.id} \cup {t \in DOMAIN tasks : IsUnder(t, last'.id)}
       IN /\ DOMAIN tasks' = DOMAIN tasks \ gone
          /\ \A t \in DOMAIN tasks' : tasks'[t] = tasks[t]
          /\ \A t \in DOMAIN tasks \ gone :
               last'.id \in tasks[t].dependencies => t \in DOMAIN tasks']_vars

C20_Witness ==
  /\ last.op = "task.delete"
  /\ Cardinality(last.value.removed) = 2
  /\ \E t \in DOMAIN tasks : last.id \in tasks[t].dependencies

Keys(context) == {kv[1] : kv \in context}

(* C21: updateContext on an existing session leaves its context with every *)
(* supplied key at the supplied value, every other key at its previous     *)
(* value and no further key, and leaves every other session's row alone.   *)
C21_UpdateContextMerges ==
  [][(last'.op = "updateContext" /\ last'.outcome = Ok /\ last'.id \in DOMAIN sessions) =>
       LET old == sessions[last'.id].contextData
           new == sessions'[last'.id].contextData
       IN /\ last'.value \subseteq new
          /\ \A kv \in old : kv[1] \notin Keys(last'.value) => kv \in new
          /\ Keys(new) = Keys(old) \cup Keys(last'.value)
          /\ Cardinality(new) = Cardinality(Keys(new))
          /\ DOMAIN sessions' = DOMAIN sessions
          /\ \A o \in DOMAIN sessions \ {last'.id} : sessions'[o] = sessions[o]]_vars

C21_Witness ==
  /\ last.op = "updateContext"
  /\ last.value = {<<"a", 2>>, <<"c", 3>>}
  /\ sessions[last.id].contextData = {<<"a", 2>>, <<"b", 2>>, <<"c", 3>>}
  /\ Cardinality(DOMAIN sessions) = 2

SessionsOf(projectId, agentType) ==
  {s \in DOMAIN sessions : /\ sessions[s].projectId = projectId
                           /\ sessions[s].agentType = agentType}

Assigned == last.op = "assignAgent" /\ last.outcome = Ok

(* C22: assignAgent on an existing task creates no session and points one  *)
(* of the existing sessions of the task's project and the agent type at    *)
(* the task when there is one, creates exactly one session pointing at the *)
(* task otherwise, and in both cases the lookup by project and agent type  *)
(* then finds a session whose task is that task.                           *)
C22_AssignFindsOrCreates ==
  /\ [](Assigned =>
          /\ findByProjectAndType(last.projectId, last.phase) # {}
          /\ \A s \in findByProjectAndType(last.projectId, last.phase) :
               sessions[s].taskId = last.value)
  /\ [][(last'.op = "assignAgent" /\ last'.outcome = Ok) =>
          /\ last'.value \in DOMAIN tasks
          /\ tasks[last'.value].projectId = last'.projectId
          /\ \A o \in DOMAIN sessions \ {last'.id} :
               o \in DOMAIN sessions' /\ sessions'[o] = sessions[o]
          /\ sessions'[last'.id].taskId = last'.value
          /\ sessions'[last'.id].projectId = last'.projectId
          /\ sessions'[last'.id].agentType = last'.phase
          /\ IF \E s \in DOMAIN sessions : /\ sessions[s].projectId = last'.projectId
                                           /\ sessions[s].agentType = last'.phase
               THEN DOMAIN sessions' = DOMAIN sessions
               ELSE /\ last'.id \notin DOMAIN sessions
                    /\ DOMAIN sessions' = DOMAIN sessions \cup {last'.id}]_vars

C22_Witness ==
  /\ Assigned
  /\ Cardinality(SessionsOf(last.projectId, last.phase)) = 2
  /\ sessions[last.id].taskId = last.value
  /\ sessions[last.id].contextData # {}

SessionTouched ==
  /\ last.op \in {"context_save", "updateContext", "assignAgent"}
  /\ last.outcome = Ok
  /\ last.id \in DOMAIN sessions

(* C23: the lookup by project and agent type finds nothing exactly when    *)
(* the project has no session of the type, and right after a session was   *)
(* created, updated or assigned the lookup for its project and type finds  *)
(* that session, the one active most recently.                             *)
C23_LookupMostRecent ==
  /\ \A p \in DOMAIN projects, ty \in AgentTypes :
       findByProjectAndType(p, ty) = {} <=> SessionsOf(p, ty) = {}
  /\ SessionTouched =>
       findByProjectAndType(sessions[last.id].projectId, sessions[last.id].agentType)
         = {last.id}

(***************************************************************************)
(* C24: a resume, through the workflow repository or through the           *)
(* workflow_resume tool, leaves every project, task, session and           *)
(* checkpoint row as it was before the call.                               *)
(***************************************************************************)
C24_ResumeReadsOnly ==
  [][last'.op \in {"resumeWorkflow", "workflow_resume"} =>
       /\ projects' = projects
       /\ tasks' = tasks
       /\ sessions' = sessions
       /\ checkpoints' = checkpoints]_vars

(* the tool resumed a project that has moved past the phase of its latest checkpoint *)
C24_Witness ==
  /\ last.op = "workflow_resume"
  /\ last.outcome = Ok
  /\ \E c \in getLatestCheckpoint(last.projectId) :
       checkpoints[c].phase # projects[last.projectId].currentPhase
  /\ \E t \in DOMAIN tasks : tasks[t].projectId = last.projectId

(***************************************************************************)
(* C25: for an existing project the workflow_resume tool returns the       *)
(* resume state: the project, its current phase, its latest checkpoint     *)
(* (none when it has none), its pending tasks and its completed tasks.     *)
(***************************************************************************)
C25_ToolReturnsResumeState ==
  (last.op = "workflow_resume" /\ last.projectId \in DOMAIN projects) =>
     /\ last.outcome = Ok
     /\ {"project", "currentPhase", "checkpoint", "pendingTasks", "completedTasks"}
          \subseteq DOMAIN last.value
     /\ last.value.currentPhase = resumeWorkflow(last.projectId).currentPhase
     /\ last.value.checkpoint = resumeWorkflow(last.projectId).checkpoint
     /\ last.value.pendingTasks = resumeWorkflow(last.projectId).pendingTasks
     /\ last.value.completedTasks = resumeWorkflow(last.projectId).completedTasks

(***************************************************************************)
(* C26: reporting progress for a task id that does not exist fails with a  *)
(* not-found error for that id and never returns a success result.         *)
(***************************************************************************)
C26_ProgressOnMissingTaskFails ==
  (last.op = "task_progress" /\ last.id \notin DOMAIN tasks) =>
     /\ last.outcome # Ok
     /\ last.value \in TaskStatuses \cup {"started"} => last.outcome.msg = "Task not found"

MissingProjects == EverProjects \ DOMAIN projects

CreateFor(projectId) ==
  \/ \E parentId \in DOMAIN tasks \cup {NoTask} :
       TaskCreate(projectId, parentId, "requirements", "", 0, {})
  \/ \E taskId \in DOMAIN tasks \cup {NoTask} : SessionCreate(projectId, taskId, "design", {})
  \/ CreateCheckpoint(projectId, "requirements")

C28_MissingProjectRefused ==
  [][\A projectId \in MissingProjects :
       CreateFor(projectId) =>
         /\ last'.outcome = Err("SqliteError", "FOREIGN KEY constraint failed")
         /\ projects' = projects
         /\ tasks' = tasks
         /\ sessions' = sessions
         /\ checkpoints' = checkpoints]_vars

(* a session was refused for a project that has been deleted while another *)
(* project and its rows are in the store                                   *)
C28_Witness ==
  /\ last.op = "session.create"
  /\ last.outcome = Err("SqliteError", "FOREIGN KEY constraint failed")
  /\ last.projectId \in MissingProjects \ {GhostProject}
  /\ tasks # << >>

(***************************************************************************)
(* C29: with mirroring enabled, writing a named document overwrites in     *)
(* place the first file of that name in the candidate list (primary        *)
(* location, then the alternates) and creates no file; only when no        *)
(* candidate holds the document is a file created, at the primary          *)
(* location.  No other file changes, so no second copy appears.            *)
(***************************************************************************)
C29_WriteFindsFirstCopy ==
  [][(last'.op = "writeSpecFile" /\ enabled) =>
       LET paths == searchPaths(last'.projectId, last'.value.fileName)
           held == {i \in DOMAIN paths : paths[i] \in DOMAIN specFiles}
           target == IF held = {}
                       THEN paths[1]
                       ELSE paths[CHOOSE i \in held : \A j \in held : i <= j]
       IN /\ DOMAIN specFiles' = DOMAIN specFiles \cup {target}
          /\ held # {} => DOMAIN specFiles' = DOMAIN specFiles
          /\ specFiles'[target] = last'.value.content
          /\ \A f \in DOMAIN specFiles \ {target} : specFiles'[f] = specFiles[f]]_vars

(* a write has landed on the copy in the working directory: the primary    *)
(* location holds none, the third candidate holds an older one             *)
C29_Witness ==
  /\ last.op = "writeSpecFile"
  /\ enabled
  /\ LET paths == searchPaths(last.projectId, last.value.fileName)
     IN /\ paths[1] \notin DOMAIN specFiles
        /\ paths[2] \in DOMAIN specFiles
        /\ paths[3] \in DOMAIN specFiles
        /\ specFiles[paths[2]] = last.value.content
        /\ specFiles[paths[3]] # last.value.content

(***************************************************************************)
(* C30: with mirroring enabled, a handoff of requirements, design or tasks *)
(* on a project made by project_create succeeds; the handoff document of   *)
(* that phase is then in the project's tracking directory, and the         *)
(* project's README marks the phase done and names, as current phase, the  *)
(* phase the project has in the store.                                     *)
(***************************************************************************)
TrackingDirs(projectId) == {projectId, projects[projectId].name}

C30_HandoffLeavesDocuments ==
  (/\ last.op = "workflow_handoff"
   /\ enabled
   /\ last.phase \in {"requirements", "design", "tasks"}
   /\ last.projectId \in DOMAIN projects
   /\ last.value.fromPhase = last.phase) =>
     /\ last.outcome = Ok
     /\ \E dir \in TrackingDirs(last.projectId) :
          /\ \A hf \in handoffFileOf(last.phase) : <<dir, hf>> \in DOMAIN handoffFiles
          /\ dir \in DOMAIN readmeFiles
          /\ last.phase \in readmeFiles[dir].done
          /\ readmeFiles[dir].current = projects[last.projectId].currentPhase

(***************************************************************************)
(* C31: when creating the project's files fails during project_create, the *)
(* operation fails and afterwards no project of that name is in the store. *)
(***************************************************************************)
C31_FailedCreateRollsBack ==
  (last.op = "project_create" /\ last.outcome = Err("InternalError", "Failed to create project")) =>
     ProjectsNamed(last.value) = {}

(***************************************************************************)
(* C32: context merges on one session are not atomic.  The blob a call     *)
(* writes is the blob it read merged with its own keys, so when two calls  *)
(* have both read before either writes, the keys the first writer stored   *)
(* are missing from the final blob unless the second call read or          *)
(* supplied them.                                                          *)
(***************************************************************************)
C32_StaleMergeLosesKeys ==
  [][(last'.op = "updateContext.write" /\ last'.id \in DOMAIN sessions) =>
       LET final == sessions'[last'.id].contextData
       IN /\ final = SpreadMerge(last'.value.read, last'.value.context)
          /\ \A kv \in last'.value.stored :
               kv[1] \notin Keys(last'.value.read) \cup Keys(last'.value.context)
                 => kv[1] \notin Keys(final)]_vars

(* both calls read {a: 1}; the first stored {a: 1, b: 2}, the second has   *)
(* just stored {a: 1, c: 3}: key b is lost                                 *)
C32_Witness ==
  /\ last.op = "updateContext.write"
  /\ last.value.read = {<<"a", 1>>}
  /\ last.value.stored = {<<"a", 1>>, <<"b", 2>>}
  /\ last.value.context = {<<"c", 3>>}
  /\ sessions[last.id].contextData = {<<"a", 1>>, <<"c", 3>>}

(***************************************************************************)
(* C33: getLatestCheckpoint returns null exactly when the project has no   *)
(* checkpoint, and otherwise the checkpoint created last for the project   *)
(* (ids are handed out in creation order), however many checkpoints were   *)
(* created before it and whenever.                                         *)
(***************************************************************************)
CheckpointsOf(projectId) == {c \in DOMAIN checkpoints : checkpoints[c].projectId = projectId}

C33_LatestIsLastCreated ==
  \A p \in DOMAIN projects :
     IF CheckpointsOf(p) = {}
       THEN getLatestCheckpoint(p) = {}
       ELSE getLatestCheckpoint(p) =
              {c \in CheckpointsOf(p) : \A o \in CheckpointsOf(p) : o <= c}

(***************************************************************************)
(* C34: in every checkpoint that checkpoint creation produced, the current *)
(* task, when there is one, is not in the list of completed tasks, also    *)
(* when status updates run between the creation's two task queries.        *)
(***************************************************************************)
C34_CurrentTaskNotCompleted ==
  \A c \in DOMAIN checkpoints :
     checkpoints[c].checkpointData.currentTask # NoTask =>
       checkpoints[c].checkpointData.currentTask
         \notin Range(checkpoints[c].checkpointData.completedTasks)

(***************************************************************************)
(* C35: the context map of context_load and of getAllContexts holds, for   *)
(* every agent type with sessions in the project, the context of the       *)
(* session that lookup by (project, agent type) returns, the most recently *)
(* active one.                                                             *)
(***************************************************************************)
C35_ContextMapIsMostRecent ==
  (last.op \in {"context_load", "getAllContexts"} /\ last.outcome = Ok) =>
     \A ty \in DOMAIN last.value.contexts :
        \A s \in findByProjectAndType(last.projectId, ty) :
           last.value.contexts[ty] = sessions[s].contextData

(***************************************************************************)
(* C36: spec_execute never sets a task to in_progress while the task has a *)
(* dependency that exists and is not completed, whether the task was named *)
(* or picked as the next pending one: a call that started a task found     *)
(* checkDependencies true for it.                                          *)
(***************************************************************************)
C36_ExecuteHonoursDependencies ==
  [][(/\ last'.op = "spec_execute"
      /\ last'.outcome = Ok
      /\ last'.value.success) => checkDependencies(last'.id)]_vars

(***************************************************************************)
(* C37: no step of spec_create, spec_design, spec_tasks or spec_execute    *)
(* moves a project's phase to an earlier element of phaseOrder.            *)
(***************************************************************************)
SpecTools == {"spec_create", "spec_design", "spec_tasks", "spec_execute"}

C37_SpecToolsNeverRewind ==
  [][last'.op \in SpecTools =>
       \A p \in DOMAIN projects \cap DOMAIN projects' :
          indexOf(phaseOrder, projects'[p].currentPhase)
            >= indexOf(phaseOrder, projects[p].currentPhase)]_vars

(***************************************************************************)
(* C38: spec_tasks succeeds for a project only if spec_design succeeded    *)
(* for it earlier, and spec_design succeeds only if the requirements step  *)
(* was performed for it earlier; no other operation makes a later step     *)
(* available.  The session a successful spec_design leaves is the only one *)
(* of type design that carries basedOnRequirements, and sessions stay, so  *)
(* "spec_design succeeded earlier" is the presence of that session; the    *)
(* requirements step is taken to be performed when the project has a       *)
(* requirements session at all.                                            *)
(***************************************************************************)
DesignSucceeded(projectId) ==
  \E s \in DOMAIN sessions :
     /\ sessions[s].projectId = projectId
     /\ sessions[s].agentType = "design"
     /\ <<"basedOnRequirements", "true">> \in sessions[s].contextData

RequirementsPerformed(projectId) ==
  \E s \in DOMAIN sessions :
     sessions[s].projectId = projectId /\ sessions[s].agentType = "requirements"

C38_SpecStepsInOrder ==
  [][/\ (last'.op = "spec_tasks" /\ last'.outcome = Ok)
          => DesignSucceeded(last'.projectId)
     /\ (last'.op = "spec_design" /\ last'.outcome = Ok)
          => RequirementsPerformed(last'.projectId)]_vars

(***************************************************************************)
(* C39: a task progress report changes only the named task's status: its   *)
(* other fields, assignee-type among them, and every other task are the    *)
(* same after the report as before.                                        *)
(***************************************************************************)
ProgressReported == last'.op = "task_progress" /\ last'.outcome = Ok

C39_ProgressChangesStatusOnly ==
  [][ProgressReported =>
       /\ DOMAIN tasks' = DOMAIN tasks
       /\ \A t \in DOMAIN tasks :
            IF t = last'.id
              THEN tasks'[t] = [tasks[t] EXCEPT !.status = tasks'[t].status]
              ELSE tasks'[t] = tasks[t]]_vars

(***************************************************************************)
(* C39, amended: a task progress report changes the named task's status    *)
(* (started being stored as in_progress) and sets its assignee-type to     *)
(* implementation; the task's other fields and every other task are the    *)
(* same after the report as before.                                        *)
(***************************************************************************)
C39_ProgressChangesStatusAndAssignee ==
  [][ProgressReported =>
       /\ DOMAIN tasks' = DOMAIN tasks
       /\ \A t \in DOMAIN tasks :
            IF t = last'.id
              THEN tasks'[t] = [tasks[t] EXCEPT !.status = ProgressStatus(last'.value),
                                                !.assigneeType = "implementation"]
              ELSE tasks'[t] = tasks[t]]_vars

(* task last.id has just been reported completed beside a blocked task of  *)
(* the same project that no report has touched                             *)
C39_Witness ==
  /\ last.op = "task_progress"
  /\ last.outcome = Ok
  /\ last.id \in DOMAIN tasks
  /\ tasks[last.id].status = "completed"
  /\ tasks[last.id].assigneeType = "implementation"
  /\ \E t \in DOMAIN tasks \ {last.id} :
        /\ tasks[t].projectId = tasks[last.id].projectId
        /\ tasks[t].status = "blocked"
        /\ tasks[t].assigneeType = ""

(***************************************************************************)
(* C40: deleting a task deletes no session: every session is still there   *)
(* afterwards with its context blob unchanged, and every session whose     *)
(* task reference pointed at a task the deletion removed (the task itself  *)
(* or a descendant removed with it) has its task reference cleared.        *)
(***************************************************************************)
C40_TaskDeleteKeepsSessions ==
  [][last'.op = "task.delete" =>
       \A s \in DOMAIN sessions :
          /\ s \in DOMAIN sessions'
          /\ sessions'[s].projectId = sessions[s].projectId
          /\ sessions'[s].contextData = sessions[s].contextData
          /\ sessions[s].taskId \in DOMAIN tasks \ DOMAIN tasks'
               => sessions'[s].taskId = NoTask]_vars

(* a task has just been deleted together with a descendant that a session  *)
(* with a context blob pointed at                                          *)
C40_Witness ==
  /\ last.op = "task.delete"
  /\ \E s \in DOMAIN last.value.cleared :
        /\ last.value.cleared[s] # last.id
        /\ last.value.cleared[s] \in last.value.removed
        /\ s \in DOMAIN sessions
        /\ sessions[s].taskId = NoTask
        /\ sessions[s].contextData = {<<"a", 1>>}

====
